---- MODULE Spec2Model ----
(***************************************************************************)
(* Procedural creature: the spine (Chain.ts), the limb footstep planner    *)
(* (Leg.ts) and the animation loop that couples them.                      *)
(*                                                                         *)
(* JavaScript numbers are modelled in fixed point.  A coordinate or a      *)
(* length is an integer number of 1/UNIT (hundredths of a pixel); a cosine,*)
(* a sine, a unit-vector component, an angle in radians and a leg-influence*)
(* scalar are integers in 1/TRIG (ten-thousandths).  Every quotient is     *)
(* rounded to the nearest integer.  An IEEE NaN coordinate pair is the     *)
(* point flag nan.                                                         *)
(***************************************************************************)
EXTENDS Integers, Sequences, FiniteSets, TLC

VARIABLES chain, legs, settings, obs, budget

vars == <<chain, legs, settings, obs, budget>>

---------------------------------------------------------------------------
(* Fixed-point arithmetic                                                  *)

UNIT == 100
TRIG == 10000
Pi == 31416

Abs(a) == IF a < 0 THEN -a ELSE a
Min(a, b) == IF a < b THEN a ELSE b
Max(a, b) == IF a > b THEN a ELSE b
Sign(a) == IF a < 0 THEN -1 ELSE 1

\* F(v), with v evaluated once however often F refers to it
Strict(F(_), v) == CHOOSE r \in { F(x) : x \in { v } } : TRUE

\* a / b rounded to the nearest integer (b # 0)
Div(a, b) ==
    LET q == (2 * Abs(a) + Abs(b)) \div (2 * Abs(b))
    IN  Sign(a) * Sign(b) * q

\* product of two 1/TRIG quantities, or of a coordinate and a 1/TRIG factor
Mul(a, b) == Div(a * b, TRIG)

RECURSIVE SqrtIter(_, _)
SqrtIter(n, g) ==
    LET h == (g + n \div g) \div 2
    IN  IF h >= g THEN g ELSE SqrtIter(n, h)

\* the integer root r of n, rounded up when n is nearer to (r + 1)^2
SqrtRound(n, r) == IF n - r * r > r THEN r + 1 ELSE r

\* Math.sqrt on a non-negative integer, rounded to the nearest integer
Sqrt(n) == IF n <= 0 THEN 0 ELSE SqrtRound(n, SqrtIter(n, Min(n, 46340)))

\* Math.sqrt(dx * dx + dy * dy)
Hypot(dx, dy) == Sqrt(dx * dx + dy * dy)

\* sine of an angle in [0, Pi/2]: Taylor polynomial to the ninth power
SinQ(x) ==
    LET x2 == Mul(x, x)
        h4 == TRIG - Div(x2, 72)
        h3 == TRIG - Mul(Div(x2, 42), h4)
        h2 == TRIG - Mul(Div(x2, 20), h3)
        h1 == TRIG - Mul(Div(x2, 6), h2)
    IN  Min(TRIG, Mul(x, h1))

\* cosine of an angle in [0, Pi/2]: Taylor polynomial to the tenth power
CosQ(x) ==
    LET x2 == Mul(x, x)
        h5 == TRIG - Div(x2, 90)
        h4 == TRIG - Mul(Div(x2, 56), h5)
        h3 == TRIG - Mul(Div(x2, 30), h4)
        h2 == TRIG - Mul(Div(x2, 12), h3)
    IN  Max(0, TRIG - Mul(Div(x2, 2), h2))

\* an angle r in [0, 2 Pi) folded into the first quadrant, and the signs of
\* its sine and cosine
FoldQ(r) ==
    IF r <= Pi \div 2 THEN r
    ELSE IF r <= Pi THEN Pi - r
    ELSE IF r <= Pi + Pi \div 2 THEN r - Pi
    ELSE 2 * Pi - r
SinSign(r) == IF r <= Pi THEN 1 ELSE -1
CosSign(r) == IF r <= Pi \div 2 \/ r > Pi + Pi \div 2 THEN 1 ELSE -1

\* Math.sin
Sin(x) == SinSign(x % (2 * Pi)) * SinQ(FoldQ(x % (2 * Pi)))

\* Math.cos
Cos(x) == CosSign(x % (2 * Pi)) * CosQ(FoldQ(x % (2 * Pi)))

\* the least angle in lo .. hi whose cosine is at most c, by bisection
RECURSIVE AcosIter(_, _, _)
AcosIter(c, lo, hi) ==
    IF lo >= hi THEN lo
    ELSE IF Cos((lo + hi) \div 2) <= c THEN AcosIter(c, lo, (lo + hi) \div 2)
    ELSE AcosIter(c, (lo + hi) \div 2 + 1, hi)

\* Math.acos on [-1, 1]: the angle in [0, Pi] with that cosine
Acos(c) == AcosIter(c, 0, Pi)

---------------------------------------------------------------------------
(* Chain.ts: the spine                                                     *)

\* Chain.iterations
Iterations == 5
\* Chain.undulationSpeed, undulationAmplitude, undulationWavelength
UndulationSpeed == Div(15 * TRIG, 100)
UndulationAmplitude == Div(3 * TRIG, 10)
UndulationWavelength == Div(8 * TRIG, 10)

\* SegmentConfig
NumPointsOf(cfg) == cfg.headSegments + cfg.neckSegments + cfg.bodySegments

\* a tagging that puts the range boundaries one index late
SegmentTypeOfLate(cfg, i) ==
    IF i <= cfg.headSegments THEN "head"
    ELSE IF i <= cfg.headSegments + cfg.neckSegments THEN "neck"
    ELSE "body"

\* the segment type of index i
SegmentTypeOf(cfg, i) ==
    IF i < cfg.headSegments THEN "head"
    ELSE IF i < cfg.headSegments + cfg.neckSegments THEN "neck"
    ELSE "body"

\* the width of point i: an explicit list (widths[i] || 10) or the default
WidthOf(widths, i) ==
    IF i \in DOMAIN widths /\ widths[i] # 0 THEN widths[i] ELSE 10 * UNIT

\* new Chain(startX, startY, segmentConfig, segmentLength, friction, maxAngleDegrees, widths)
NewChain(startX, startY, cfg, segmentLength, friction, maxAngleDegrees, widths) ==
    [ points |->
        [ i \in 0 .. NumPointsOf(cfg) - 1 |->
            [ x |-> startX,
              y |-> startY + i * segmentLength,
              prevX |-> startX,
              prevY |-> startY + i * segmentLength,
              pinned |-> (i = 0),
              width |-> WidthOf(widths, i),
              segmentType |-> SegmentTypeOf(cfg, i),
              legInfluence |-> 0,
              nan |-> FALSE ] ],
      segmentLength |-> segmentLength,
      friction |-> friction,
      maxAngle |-> Div(maxAngleDegrees * Pi, 180),
      iterations |-> Iterations,
      segmentConfig |-> cfg,
      undulationPhase |-> 0,
      undulationSpeed |-> UndulationSpeed,
      undulationAmplitude |-> UndulationAmplitude,
      undulationWavelength |-> UndulationWavelength ]

\* get numPoints
NumPoints(c) == Cardinality(DOMAIN c.points)

\* get bodyStartIndex
BodyStartIndex(c) == c.segmentConfig.headSegments + c.segmentConfig.neckSegments

\* the indices from the first point after the head, neck included
GetSegmentIndicesFromNeck(c) ==
    [ k \in 1 .. Max(0, NumPoints(c) - c.segmentConfig.headSegments) |->
        c.segmentConfig.headSegments + k - 1 ]

\* getBodySegmentIndices, in ascending order
GetBodySegmentIndices(c) ==
    [ k \in 1 .. Max(0, NumPoints(c) - BodyStartIndex(c)) |-> BodyStartIndex(c) + k - 1 ]

\* a Verlet step that does not skip the pinned point
IntegrateAll(c, p) ==
    LET vx == p.x - p.prevX
        vy == p.y - p.prevY
    IN  [ p EXCEPT !.prevX = p.x, !.prevY = p.y,
                   !.x = p.x + Div(vx * c.friction, 100),
                   !.y = p.y + Div(vy * c.friction, 100) ]

\* the Verlet step of one point
Integrate(c, p) ==
    IF p.pinned THEN p
    ELSE LET vx == p.x - p.prevX
             vy == p.y - p.prevY
         IN  [ p EXCEPT !.prevX = p.x, !.prevY = p.y,
                        !.x = p.x + Div(vx * c.friction, 100),
                        !.y = p.y + Div(vy * c.friction, 100) ]

\* one pass of the loop of applyDistanceConstraints, on the pair (i, i + 1)
ConstrainPair(c, pts, i) ==
    LET p1 == pts[i]
        p2 == pts[i + 1]
        dx == p2.x - p1.x
        dy == p2.y - p1.y
        dist == Hypot(dx, dy)
        diff == c.segmentLength - dist
    IN  IF p1.nan \/ p2.nan \/ dist = 0
        THEN \* diff / dist is NaN or infinite: the offsets are NaN
             [ pts EXCEPT ![i].nan = @ \/ ~p1.pinned,
                          ![i + 1].nan = @ \/ ~p2.pinned ]
        ELSE LET offsetX == Div(dx * diff, 2 * dist)
                 offsetY == Div(dy * diff, 2 * dist)
             IN  [ pts EXCEPT
                     ![i].x = IF p1.pinned THEN @ ELSE @ - offsetX,
                     ![i].y = IF p1.pinned THEN @ ELSE @ - offsetY,
                     ![i + 1].x = IF p2.pinned THEN @ ELSE @ + offsetX,
                     ![i + 1].y = IF p2.pinned THEN @ ELSE @ + offsetY ]

RECURSIVE DistanceLoop(_, _, _)
DistanceLoop(c, pts, i) ==
    IF i >= Cardinality(DOMAIN pts) - 1 THEN pts
    ELSE DistanceLoop(c, ConstrainPair(c, pts, i), i + 1)

\* applyDistanceConstraints
ApplyDistanceConstraints(c, pts) == DistanceLoop(c, pts, 0)

\* one pass of the loop of applyAngleConstraints, on the interior point i
ConstrainAngle(c, pts, i) ==
    LET p0 == pts[i - 1]
        p1 == pts[i]
        p2 == pts[i + 1]
        v1x == p1.x - p0.x
        v1y == p1.y - p0.y
        v2x == p2.x - p1.x
        v2y == p2.y - p1.y
        len1 == Hypot(v1x, v1y)
        len2 == Hypot(v2x, v2y)
    IN  IF p0.nan \/ p1.nan \/ p2.nan THEN pts  \* NaN > maxAngle is false
        ELSE IF len1 = 0 \/ len2 = 0 THEN pts
        ELSE LET \* dot / (len1 * len2), as the dot product of the unit vectors
                 cosAngle == Div(Div(v1x * TRIG, len1) * Div(v2x * TRIG, len2)
                                 + Div(v1y * TRIG, len1) * Div(v2y * TRIG, len2), TRIG)
                 angle == Acos(Max(-TRIG, Min(TRIG, cosAngle)))
             IN  IF angle > c.maxAngle
                 THEN LET angleDiff == angle - c.maxAngle
                          cross == v1x * v2y - v1y * v2x
                          rotationSign == IF cross > 0 THEN -1 ELSE 1
                          halfAngle == Div(angleDiff, 2) * rotationSign
                          cos == Cos(halfAngle)
                          sin == Sin(halfAngle)
                          newV2x == Div(v2x * cos - v2y * sin, TRIG)
                          newV2y == Div(v2x * sin + v2y * cos, TRIG)
                      IN  IF p2.pinned THEN pts
                          ELSE [ pts EXCEPT ![i + 1].x = p1.x + newV2x,
                                            ![i + 1].y = p1.y + newV2y ]
                 ELSE pts

RECURSIVE AngleLoop(_, _, _)
AngleLoop(c, pts, i) ==
    IF i >= Cardinality(DOMAIN pts) - 1 THEN pts
    ELSE AngleLoop(c, ConstrainAngle(c, pts, i), i + 1)

\* applyAngleConstraints
ApplyAngleConstraints(c, pts) == AngleLoop(c, pts, 1)

\* the constraint loop of update: iter passes of distance then angle
RECURSIVE ConstraintLoop(_, _, _)
ConstraintLoop(c, pts, iter) ==
    IF iter >= c.iterations THEN pts
    ELSE ConstraintLoop(c, ApplyAngleConstraints(c, ApplyDistanceConstraints(c, pts)), iter + 1)

\* one pass of the loop of applyUndulation, on point i >= 1
Undulate(c, pts, i, amplitude, phase) ==
    LET point == pts[i]
        prev == pts[i - 1]
        dx == point.x - prev.x
        dy == point.y - prev.y
        len == Hypot(dx, dy)
        n == Cardinality(DOMAIN pts)
    IN  IF point.pinned THEN pts
        ELSE IF point.nan \/ prev.nan
        THEN [ pts EXCEPT ![i].nan = TRUE ]   \* len is NaN, and NaN === 0 is false
        ELSE IF len = 0 THEN pts
        ELSE LET dirX == Div(dx * TRIG, len)
                 dirY == Div(dy * TRIG, len)
                 perpX == -dirY
                 perpY == dirX
                 \* t = i / (n - 1)
                 phaseOffset == Mul(Div(i * 2 * Pi, n - 1), c.undulationWavelength)
                 envelope == Sin(Div(i * Pi, n - 1))
                 wave == Mul(Sin(phase - phaseOffset), envelope)
             IN  [ pts EXCEPT
                     ![i].x = @ + Div(Mul(perpX, wave) * amplitude, 10 * TRIG),
                     ![i].y = @ + Div(Mul(perpY, wave) * amplitude, 10 * TRIG) ]

RECURSIVE UndulationLoop(_, _, _, _, _)
UndulationLoop(c, pts, i, amplitude, phase) ==
    IF i >= Cardinality(DOMAIN pts) THEN pts
    ELSE UndulationLoop(c, Undulate(c, pts, i, amplitude, phase), i + 1, amplitude, phase)

\* a phase advance without the cap on the speed
UndulationPhaseUncapped(c, speed) ==
    c.undulationPhase + Div(c.undulationSpeed * speed, UNIT)

\* the phase after applyUndulation(speed)
UndulationPhaseAfter(c, speed) ==
    c.undulationPhase + Div(c.undulationSpeed * Min(speed, 3 * UNIT), UNIT)

\* applyUndulation(speed): the points it leaves
ApplyUndulation(c, pts, speed) ==
    LET speedFactor == Min(Div(speed * TRIG, 2 * UNIT), TRIG)
        amplitude == Mul(Mul(c.undulationAmplitude, speedFactor), c.segmentLength)
    IN  ApplyDistanceConstraints(c,
            UndulationLoop(c, pts, 1, amplitude, UndulationPhaseAfter(c, speed)))

\* one pass of the loop of applyLegInfluence, on the body point i
Influence(c, pts, i) ==
    LET point == pts[i]
        next == pts[i + 1]
        dx == next.x - point.x
        dy == next.y - point.y
        len == Hypot(dx, dy)
    IN  IF Abs(point.legInfluence) < Div(TRIG, 1000) THEN pts
        ELSE IF point.nan \/ next.nan
        THEN [ pts EXCEPT ![i + 1].nan = @ \/ ~next.pinned ]
        ELSE IF len = 0 THEN pts
        ELSE LET rotationAmount == Div(point.legInfluence * 2, 100)
                 cos == Cos(rotationAmount)
                 sin == Sin(rotationAmount)
                 newDx == Div(dx * cos - dy * sin, TRIG)
                 newDy == Div(dx * sin + dy * cos, TRIG)
             IN  IF next.pinned THEN pts
                 ELSE [ pts EXCEPT ![i + 1].x = point.x + newDx,
                                   ![i + 1].y = point.y + newDy ]

RECURSIVE InfluenceLoop(_, _, _)
InfluenceLoop(c, pts, i) ==
    IF i >= Cardinality(DOMAIN pts) - 1 THEN pts
    ELSE InfluenceLoop(c, Influence(c, pts, i), i + 1)

\* applyLegInfluence
ApplyLegInfluence(c, pts) == InfluenceLoop(c, pts, BodyStartIndex(c))

\* the head speed that update computes on entry
HeadSpeed(c) ==
    LET head == c.points[0]
    IN  Hypot(head.x - head.prevX, head.y - head.prevY)

\* the speed above which update applies the undulation
UndulationThreshold == Div(5 * UNIT, 10)

\* an update that leaves the accumulators as they are
KeepInfluence(pts) == pts

\* the reset of the accumulators at the end of update
ResetInfluence(pts) == [ i \in DOMAIN pts |-> [ pts[i] EXCEPT !.legInfluence = 0 ] ]

\* Chain.update
ChainUpdate(c) ==
    LET headSpeed == HeadSpeed(c)
        integrated == [ i \in DOMAIN c.points |-> Integrate(c, c.points[i]) ]
        constrained == ConstraintLoop(c, integrated, 0)
        moving == headSpeed > UndulationThreshold
        undulated == IF moving THEN ApplyUndulation(c, constrained, headSpeed)
                     ELSE constrained
        influenced == ApplyLegInfluence(c, undulated)
    IN  [ c EXCEPT !.points = ResetInfluence(influenced),
                   !.undulationPhase = IF moving THEN UndulationPhaseAfter(c, headSpeed)
                                       ELSE @ ]

\* a setLegInfluence that overwrites the accumulator
ChainOverwriteLegInfluence(c, index, angleInfluence) ==
    IF index >= 0 /\ index < NumPoints(c)
    THEN [ c EXCEPT !.points[index].legInfluence = angleInfluence ]
    ELSE c

\* Chain.setLegInfluence
ChainSetLegInfluence(c, index, angleInfluence) ==
    IF index >= 0 /\ index < NumPoints(c)
    THEN [ c EXCEPT !.points[index].legInfluence = @ + angleInfluence ]
    ELSE c

\* Chain.setHeadPosition
ChainSetHeadPosition(c, x, y) ==
    LET head == c.points[0]
    IN  [ c EXCEPT !.points[0] =
            [ head EXCEPT !.prevX = head.x, !.prevY = head.y, !.x = x, !.y = y ] ]

---------------------------------------------------------------------------
(* FABRIK.ts: the limb solver                                              *)

\* a Point; nan marks a NaN coordinate pair
Pt(x, y) == [ x |-> x, y |-> y, nan |-> FALSE ]
NaNPt == [ x |-> 0, y |-> 0, nan |-> TRUE ]

\* an optional Point argument
Some(p) == [ defined |-> TRUE, x |-> p.x, y |-> p.y, nan |-> p.nan ]
Undefined == [ defined |-> FALSE, x |-> 0, y |-> 0, nan |-> FALSE ]

RECURSIVE SumTo(_, _)
SumTo(lengths, k) == IF k <= 0 THEN 0 ELSE lengths[k - 1] + SumTo(lengths, k - 1)

\* new FABRIKSolver(startX, startY, segmentLengths); segmentLengths is indexed from 0
NewSolver(startX, startY, segmentLengths) ==
    LET m == Cardinality(DOMAIN segmentLengths)
    IN  [ joints |-> [ i \in 0 .. m |-> Pt(startX, startY + SumTo(segmentLengths, i)) ],
          lengths |-> segmentLengths,
          totalLength |-> SumTo(segmentLengths, m) ]

\* base + (p - base) * (len / distance) when distance > 0, else p unchanged
Rescale(base, p, len) ==
    IF base.nan \/ p.nan THEN p   \* distance is NaN, and NaN > 0 is false
    ELSE LET dx == p.x - base.x
             dy == p.y - base.y
             distance == Hypot(dx, dy)
         IN  IF distance > 0
             THEN Pt(base.x + Div(dx * len, distance), base.y + Div(dy * len, distance))
             ELSE p

\* an unreachable branch that steps by the first length for every segment
RECURSIVE ExtendByFirstLength(_, _, _, _, _)
ExtendByFirstLength(s, joints, dirX, dirY, i) ==
    IF i >= Cardinality(DOMAIN joints) THEN joints
    ELSE ExtendByFirstLength(s,
                [ joints EXCEPT ![i] = Pt(joints[i - 1].x + Mul(dirX, s.lengths[0]),
                                          joints[i - 1].y + Mul(dirY, s.lengths[0])) ],
                dirX, dirY, i + 1)

\* the unreachable branch of solve: joints laid along the anchor-to-target direction
RECURSIVE Extend(_, _, _, _, _)
Extend(s, joints, dirX, dirY, i) ==
    IF i >= Cardinality(DOMAIN joints) THEN joints
    ELSE Extend(s,
                [ joints EXCEPT ![i] = Pt(joints[i - 1].x + Mul(dirX, s.lengths[i - 1]),
                                          joints[i - 1].y + Mul(dirY, s.lengths[i - 1])) ],
                dirX, dirY, i + 1)

\* the clamp margin of solveTwoSegment, 0.01
ClampEps == Div(UNIT, 100)

\* a solveTwoSegment that bends away from the hint
SolveTwoSegmentAway(s, target, anchor, poleTarget) ==
    LET len1 == s.lengths[0]
        len2 == s.lengths[1]
        dx == target.x - anchor.x
        dy == target.y - anchor.y
        dist == Hypot(dx, dy)
        minDist == Abs(len1 - len2)
        maxDist == len1 + len2
        clampedDist == Max(minDist + ClampEps, Min(maxDist - ClampEps, dist))
        cosAngle == Div((len1 * len1 + clampedDist * clampedDist - len2 * len2) * 10,
                        Div(2 * len1 * clampedDist, 1000))
        angle == Acos(Max(-TRIG, Min(TRIG, cosAngle)))
        toFootX == Div(dx * TRIG, clampedDist)
        toFootY == Div(dy * TRIG, clampedDist)
        poleToMidX == poleTarget.x - Div(anchor.x + target.x, 2)
        poleToMidY == poleTarget.y - Div(anchor.y + target.y, 2)
        cross == toFootX * poleToMidY - toFootY * poleToMidX
        bendSign == IF ~poleTarget.nan /\ cross >= 0 THEN -1 ELSE 1
        perpX == -toFootY * bendSign
        perpY == toFootX * bendSign
        kneeX == anchor.x + Mul(Mul(toFootX, Cos(angle)), len1) + Mul(Mul(perpX, Sin(angle)), len1)
        kneeY == anchor.y + Mul(Mul(toFootY, Cos(angle)), len1) + Mul(Mul(perpY, Sin(angle)), len1)
    IN  [ s EXCEPT !.joints =
            [ @ EXCEPT ![0] = anchor,
                       ![2] = target,
                       ![1] = IF anchor.nan \/ target.nan THEN NaNPt ELSE Pt(kneeX, kneeY) ] ]

\* solveTwoSegment
SolveTwoSegment(s, target, anchor, poleTarget) ==
    LET len1 == s.lengths[0]
        len2 == s.lengths[1]
        dx == target.x - anchor.x
        dy == target.y - anchor.y
        dist == Hypot(dx, dy)
        minDist == Abs(len1 - len2)
        maxDist == len1 + len2
        clampedDist == Max(minDist + ClampEps, Min(maxDist - ClampEps, dist))
        cosAngle == Div((len1 * len1 + clampedDist * clampedDist - len2 * len2) * 10,
                        Div(2 * len1 * clampedDist, 1000))
        angle == Acos(Max(-TRIG, Min(TRIG, cosAngle)))
        toFootX == Div(dx * TRIG, clampedDist)
        toFootY == Div(dy * TRIG, clampedDist)
        poleToMidX == poleTarget.x - Div(anchor.x + target.x, 2)
        poleToMidY == poleTarget.y - Div(anchor.y + target.y, 2)
        cross == toFootX * poleToMidY - toFootY * poleToMidX
        \* a NaN cross product fails cross >= 0
        bendSign == IF ~poleTarget.nan /\ cross >= 0 THEN 1 ELSE -1
        perpX == -toFootY * bendSign
        perpY == toFootX * bendSign
        kneeX == anchor.x + Mul(Mul(toFootX, Cos(angle)), len1) + Mul(Mul(perpX, Sin(angle)), len1)
        kneeY == anchor.y + Mul(Mul(toFootY, Cos(angle)), len1) + Mul(Mul(perpY, Sin(angle)), len1)
    IN  [ s EXCEPT !.joints =
            [ @ EXCEPT ![0] = anchor,
                       ![2] = target,
                       ![1] = IF anchor.nan \/ target.nan THEN NaNPt ELSE Pt(kneeX, kneeY) ] ]

\* the forward-reaching loop of solve: i from n - 2 down to 0
RECURSIVE ForwardReach(_, _, _)
ForwardReach(s, joints, i) ==
    IF i < 0 THEN joints
    ELSE ForwardReach(s, [ joints EXCEPT ![i] = Rescale(joints[i + 1], joints[i], s.lengths[i]) ],
                      i - 1)

\* the backward-reaching loop of solve: i from 0 up to n - 2
RECURSIVE BackwardReach(_, _, _)
BackwardReach(s, joints, i) ==
    IF i >= Cardinality(DOMAIN joints) - 1 THEN joints
    ELSE BackwardReach(s,
                       [ joints EXCEPT ![i + 1] = Rescale(joints[i], joints[i + 1], s.lengths[i]) ],
                       i + 1)

\* the thresholds 0.01 of applyPoleTarget and 0.1 of solve
PoleEps == Div(UNIT, 100)
CloseEnough == Div(UNIT, 10)

\* one pass of the loop of applyPoleTarget, on the middle joint i
PoleJoint(s, joints, anchor, poleTarget, strength, chainNormX, chainNormY, chainNaN, i) ==
    LET joint == joints[i]
        prev == joints[i - 1]
        next == joints[i + 1]
        toJointX == joint.x - anchor.x
        toJointY == joint.y - anchor.y
        projDist == Div(toJointX * chainNormX + toJointY * chainNormY, TRIG)
        projX == anchor.x + Mul(chainNormX, projDist)
        projY == anchor.y + Mul(chainNormY, projDist)
        toPoleX == poleTarget.x - projX
        toPoleY == poleTarget.y - projY
        toPoleLen == Hypot(toPoleX, toPoleY)
        anyNaN == chainNaN \/ joint.nan \/ poleTarget.nan \/ prev.nan \/ next.nan
        distPrevNext == Hypot(next.x - prev.x, next.y - prev.y)
        len1 == s.lengths[i - 1]
        room == len1 * len1 - Div(distPrevNext * distPrevNext, 4)
        \* Math.sqrt(...) || len1 * 0.5: NaN and 0 fall to the default
        maxBulge == IF room > 0 THEN Sqrt(room) ELSE Div(len1, 2)
        targetX == projX + Div(toPoleX * maxBulge, toPoleLen)
        targetY == projY + Div(toPoleY * maxBulge, toPoleLen)
        \* joint * (1 - strength) + target * strength
        blended == Pt(joint.x + Div((targetX - joint.x) * strength, TRIG),
                      joint.y + Div((targetY - joint.y) * strength, TRIG))
    IN  IF anyNaN THEN [ joints EXCEPT ![i] = NaNPt ]
        ELSE IF toPoleLen < PoleEps THEN joints
        ELSE [ joints EXCEPT ![i] = Rescale(prev, blended, len1) ]

RECURSIVE PoleLoop(_, _, _, _, _, _, _, _, _)
PoleLoop(s, joints, anchor, poleTarget, strength, chainNormX, chainNormY, chainNaN, i) ==
    IF i >= Cardinality(DOMAIN joints) - 1 THEN joints
    ELSE PoleLoop(s,
                  PoleJoint(s, joints, anchor, poleTarget, strength,
                            chainNormX, chainNormY, chainNaN, i),
                  anchor, poleTarget, strength, chainNormX, chainNormY, chainNaN, i + 1)

\* the end of applyPoleTarget: the end effector put at lastLen from the last
\* middle joint, towards the target
EndEffectorFix(lastMiddle, target, last, lastLen) ==
    IF lastMiddle.nan \/ target.nan THEN last
    ELSE LET toEndX == target.x - lastMiddle.x
             toEndY == target.y - lastMiddle.y
             toEndDist == Hypot(toEndX, toEndY)
         IN  IF toEndDist > 0
             THEN Pt(lastMiddle.x + Div(toEndX * lastLen, toEndDist),
                     lastMiddle.y + Div(toEndY * lastLen, toEndDist))
             ELSE last

\* applyPoleTarget
ApplyPoleTarget(s, joints, anchor, target, poleTarget, strength) ==
    LET n == Cardinality(DOMAIN joints)
        chainDirX == target.x - anchor.x
        chainDirY == target.y - anchor.y
        chainLen == Hypot(chainDirX, chainDirY)
        chainNaN == anchor.nan \/ target.nan
    IN  IF ~chainNaN /\ chainLen < PoleEps THEN joints
        ELSE LET chainNormX == IF chainNaN THEN 0 ELSE Div(chainDirX * TRIG, chainLen)
                 chainNormY == IF chainNaN THEN 0 ELSE Div(chainDirY * TRIG, chainLen)
                 biased == PoleLoop(s, joints, anchor, poleTarget, strength,
                                    chainNormX, chainNormY, chainNaN, 1)
             IN  [ biased EXCEPT ![n - 1] =
                     EndEffectorFix(biased[n - 2], target, biased[n - 1], s.lengths[n - 2]) ]

\* the iteration loop of solve, from pass iter on
RECURSIVE Iterate(_, _, _, _, _, _, _, _)
Iterate(s, joints, target, anchor, poleTarget, poleStrength, iterations, iter) ==
    IF iter >= iterations THEN joints
    ELSE LET n == Cardinality(DOMAIN joints)
             reached == ForwardReach(s, [ joints EXCEPT ![n - 1] = target ], n - 2)
             based == BackwardReach(s, [ reached EXCEPT ![0] = anchor ], 0)
             biased == IF poleTarget.defined /\ poleStrength > 0
                       THEN ApplyPoleTarget(s, based, anchor, target, poleTarget, poleStrength)
                       ELSE based
             endDist == Hypot(biased[n - 1].x - target.x, biased[n - 1].y - target.y)
         IN  IF ~biased[n - 1].nan /\ ~target.nan /\ endDist < CloseEnough
             THEN biased
             ELSE Iterate(s, biased, target, anchor, poleTarget, poleStrength,
                          iterations, iter + 1)

\* FABRIKSolver.solve: the solver it leaves
Solve(s, target, anchor, poleTarget, poleStrength, iterations) ==
    LET n == Cardinality(DOMAIN s.joints)
        dx == target.x - anchor.x
        dy == target.y - anchor.y
        dist == Hypot(dx, dy)
    IN  IF ~target.nan /\ ~anchor.nan /\ dist > s.totalLength
        THEN [ s EXCEPT !.joints =
                 Extend(s, [ @ EXCEPT ![0] = anchor ],
                        Div(dx * TRIG, dist), Div(dy * TRIG, dist), 1) ]
        ELSE IF n = 3 /\ poleTarget.defined
        THEN SolveTwoSegment(s, target, anchor, poleTarget)
        ELSE [ s EXCEPT !.joints =
                 Iterate(s, @, target, anchor, poleTarget, poleStrength, iterations, 0) ]

\* the default of the iterations parameter of solve
DefaultIterations == 10

---------------------------------------------------------------------------
(* Leg.ts: the limb and its footstep planner                               *)

\* Leg.poleStrength, 0.7
PoleStrength == Div(7 * TRIG, 10)
\* a step speed of 0.1 of a step per update
StepSpeedSlow == Div(10 * UNIT, 100)
\* the step speed, 0.15 of a step per update; stepProgress is in 1/UNIT
StepSpeed == Div(15 * UNIT, 100)
\* the height of the arc of a step, 20
ArcHeight == 20 * UNIT

SideMultiplier(side) == IF side = "left" THEN 1 ELSE -1

\* new Leg(attachmentIndex, side, segmentLengths)
NewLeg(attachmentIndex, side, segmentLengths) ==
    [ attachmentIndex |-> attachmentIndex,
      side |-> side,
      maxLegReach |-> SumTo(segmentLengths, Cardinality(DOMAIN segmentLengths)),
      solver |-> NewSolver(0, 0, segmentLengths),
      poleStrength |-> PoleStrength,
      isMoving |-> FALSE,
      stepProgress |-> 0,
      currentFootPos |-> Pt(0, 0),
      targetFootPos |-> Pt(0, 0),
      stepStartPos |-> Pt(0, 0),
      stepTargetPos |-> Pt(0, 0),
      lastBodyDirection |-> Pt(0, TRIG) ]

\* attachmentPoint + perp * perpLen * sideMultiplier + bodyDirection * alongLen
Offset(attachmentPoint, bodyDirection, side, perpLen, alongLen) ==
    IF attachmentPoint.nan \/ bodyDirection.nan THEN NaNPt
    ELSE LET perpX == -bodyDirection.y
             perpY == bodyDirection.x
         IN  Pt(attachmentPoint.x + Mul(perpX, perpLen) * SideMultiplier(side)
                                  + Mul(bodyDirection.x, alongLen),
                attachmentPoint.y + Mul(perpY, perpLen) * SideMultiplier(side)
                                  + Mul(bodyDirection.y, alongLen))

\* Leg.initializeAtRest
InitializeAtRest(leg, attachmentPoint, bodyDirection) ==
    LET halfReach == Div(leg.maxLegReach * 5, 10)
        foot == Offset(attachmentPoint, bodyDirection, leg.side, halfReach, 0)
    IN  [ leg EXCEPT !.currentFootPos = foot,
                     !.targetFootPos = foot,
                     !.stepStartPos = foot,
                     !.stepTargetPos = foot ]

\* (p - attachmentPoint) . perp, the projection on the perpendicular axis
PerpDot(p, attachmentPoint, bodyDirection) ==
    Div((p.x - attachmentPoint.x) * (-bodyDirection.y)
        + (p.y - attachmentPoint.y) * bodyDirection.x, TRIG)

\* (p - attachmentPoint) . bodyDirection, the offset along the body
AlongDot(p, attachmentPoint, bodyDirection) ==
    Div((p.x - attachmentPoint.x) * bodyDirection.x
        + (p.y - attachmentPoint.y) * bodyDirection.y, TRIG)

\* a wrong-side check with the threshold at 0.6 of the reach
IsOnWrongSideWide(leg, attachmentPoint, bodyDirection) ==
    LET currentPerpDot == PerpDot(leg.currentFootPos, attachmentPoint, bodyDirection)
        minPerpDistance == Div(leg.maxLegReach * 60, 100)
    IN  /\ ~(leg.currentFootPos.nan \/ attachmentPoint.nan \/ bodyDirection.nan)
        /\ \/ leg.side = "left" /\ currentPerpDot < minPerpDistance
           \/ leg.side = "right" /\ currentPerpDot > -minPerpDistance

\* isOnWrongSide of update; a NaN projection fails both comparisons
IsOnWrongSide(leg, attachmentPoint, bodyDirection) ==
    LET currentPerpDot == PerpDot(leg.currentFootPos, attachmentPoint, bodyDirection)
        minPerpDistance == Div(leg.maxLegReach * 25, 100)
    IN  /\ ~(leg.currentFootPos.nan \/ attachmentPoint.nan \/ bodyDirection.nan)
        /\ \/ leg.side = "left" /\ currentPerpDot < minPerpDistance
           \/ leg.side = "right" /\ currentPerpDot > -minPerpDistance

\* an exceeds-reach check with the threshold at 0.5 of the reach
ExceedsReachNarrow(leg, attachmentPoint) ==
    /\ ~(leg.currentFootPos.nan \/ attachmentPoint.nan)
    /\ Hypot(leg.currentFootPos.x - attachmentPoint.x,
             leg.currentFootPos.y - attachmentPoint.y) > Div(leg.maxLegReach * 50, 100)

\* distanceToFoot > maxLegReach * 0.95 of update; a NaN distance fails it
ExceedsReach(leg, attachmentPoint) ==
    /\ ~(leg.currentFootPos.nan \/ attachmentPoint.nan)
    /\ Hypot(leg.currentFootPos.x - attachmentPoint.x,
             leg.currentFootPos.y - attachmentPoint.y) > Div(leg.maxLegReach * 95, 100)

\* a wrong-side branch that stores the mirror target of the exceeds-reach branch
WrongSideTargetMirrored(leg, attachmentPoint, bodyDirection) ==
    LET lateralOffset == AlongDot(leg.currentFootPos, attachmentPoint, bodyDirection)
        halfReach == Div(leg.maxLegReach * 5, 10)
        maxLateralOffset == Div(leg.maxLegReach * 4, 10)
        mirroredLateral == Max(-maxLateralOffset,
                               Min(maxLateralOffset, Div(-lateralOffset * 8, 10)))
    IN  Offset(attachmentPoint, bodyDirection, leg.side, halfReach, mirroredLateral)

\* the step target of the wrong-side branch of update
WrongSideTarget(leg, attachmentPoint, bodyDirection) ==
    LET halfReach == Div(leg.maxLegReach * 5, 10)
        forwardOffset == Div(leg.maxLegReach * 2, 10)
    IN  Offset(attachmentPoint, bodyDirection, leg.side, halfReach, forwardOffset)

\* an exceeds-reach target whose mirrored offset is not clamped
ReachTargetUnclamped(leg, attachmentPoint, bodyDirection) ==
    LET lateralOffset == AlongDot(leg.currentFootPos, attachmentPoint, bodyDirection)
        halfReach == Div(leg.maxLegReach * 5, 10)
    IN  Offset(attachmentPoint, bodyDirection, leg.side, halfReach,
               Div(-lateralOffset * 8, 10))

\* the step target of the exceeds-reach branch of update
ReachTarget(leg, attachmentPoint, bodyDirection) ==
    LET lateralOffset == AlongDot(leg.currentFootPos, attachmentPoint, bodyDirection)
        halfReach == Div(leg.maxLegReach * 5, 10)
        maxLateralOffset == Div(leg.maxLegReach * 4, 10)
        mirroredLateral == Max(-maxLateralOffset,
                               Min(maxLateralOffset, Div(-lateralOffset * 8, 10)))
        target == Offset(attachmentPoint, bodyDirection, leg.side, halfReach, mirroredLateral)
        perpDot == PerpDot(target, attachmentPoint, bodyDirection)
        minPerpDistance == Div(leg.maxLegReach * 3, 10)
    IN  IF bodyDirection.nan THEN NaNPt
        ELSE IF (leg.side = "left" /\ perpDot < 0) \/ (leg.side = "right" /\ perpDot > 0)
        THEN Offset(attachmentPoint, bodyDirection, leg.side, minPerpDistance, mirroredLateral)
        ELSE target

\* the foot in mid-step: smoothstep from start to target, with the arc
StepFoot(leg, stepProgress) ==
    LET t == Div(stepProgress * TRIG, UNIT)
        smoothT == Mul(Mul(t, t), 3 * TRIG - 2 * t)
        start == leg.stepStartPos
        target == leg.stepTargetPos
    IN  IF start.nan \/ target.nan THEN NaNPt
        ELSE Pt(start.x + Mul(target.x - start.x, smoothT),
                start.y + Mul(target.y - start.y, smoothT) - Mul(Sin(Mul(t, Pi)), ArcHeight))

\* calculatePoleTarget, with the foot as it is after the step animation
CalculatePoleTarget(leg, attachmentPoint, bodyDirection) ==
    LET foot == leg.currentFootPos
        poleDistance == Div(leg.maxLegReach * 5, 10)
    IN  IF attachmentPoint.nan \/ bodyDirection.nan \/ foot.nan THEN NaNPt
        ELSE Offset(Pt(Div(attachmentPoint.x + foot.x, 2), Div(attachmentPoint.y + foot.y, 2)),
                    bodyDirection, leg.side, poleDistance, -poleDistance)

\* a wrong-side check that is evaluated in mid-step too
StartWrongSideStepAlways(leg, attachmentPoint, bodyDirection) ==
    IF IsOnWrongSide(leg, attachmentPoint, bodyDirection)
    THEN [ leg EXCEPT !.isMoving = TRUE,
                      !.stepProgress = 0,
                      !.stepStartPos = leg.currentFootPos,
                      !.stepTargetPos = WrongSideTarget(leg, attachmentPoint, bodyDirection) ]
    ELSE leg

\* update, the wrong-side check
StartWrongSideStep(leg, attachmentPoint, bodyDirection) ==
    IF IsOnWrongSide(leg, attachmentPoint, bodyDirection) /\ ~leg.isMoving
    THEN [ leg EXCEPT !.isMoving = TRUE,
                      !.stepProgress = 0,
                      !.stepStartPos = leg.currentFootPos,
                      !.stepTargetPos = WrongSideTarget(leg, attachmentPoint, bodyDirection) ]
    ELSE leg

\* an exceeds-reach check that does not ask whether a step has just been started
StartReachStepAlways(leg, attachmentPoint, bodyDirection) ==
    IF ExceedsReach(leg, attachmentPoint)
    THEN [ leg EXCEPT !.isMoving = TRUE,
                      !.stepProgress = 0,
                      !.stepStartPos = leg.currentFootPos,
                      !.stepTargetPos = ReachTarget(leg, attachmentPoint, bodyDirection) ]
    ELSE leg

\* update, the exceeds-reach check
StartReachStep(leg, attachmentPoint, bodyDirection) ==
    IF ~leg.isMoving /\ ExceedsReach(leg, attachmentPoint)
    THEN [ leg EXCEPT !.isMoving = TRUE,
                      !.stepProgress = 0,
                      !.stepStartPos = leg.currentFootPos,
                      !.stepTargetPos = ReachTarget(leg, attachmentPoint, bodyDirection) ]
    ELSE leg

\* a step animation that does not clamp the progress at the end of the step
AnimateStepUnclamped(leg) ==
    IF leg.isMoving
    THEN LET stepProgress == leg.stepProgress + Div(15 * UNIT, 100)
         IN  IF stepProgress >= UNIT
             THEN [ leg EXCEPT !.stepProgress = stepProgress,
                               !.isMoving = FALSE,
                               !.currentFootPos = leg.stepTargetPos ]
             ELSE [ leg EXCEPT !.stepProgress = stepProgress,
                               !.currentFootPos = StepFoot(leg, stepProgress) ]
    ELSE leg

\* update, the step animation
AnimateStep(leg) ==
    IF leg.isMoving
    THEN LET stepProgress == leg.stepProgress + StepSpeed
         IN  IF stepProgress >= UNIT
             THEN [ leg EXCEPT !.stepProgress = UNIT,
                               !.isMoving = FALSE,
                               !.currentFootPos = leg.stepTargetPos ]
             ELSE [ leg EXCEPT !.stepProgress = stepProgress,
                               !.currentFootPos = StepFoot(leg, stepProgress) ]
    ELSE leg

\* a solve that takes the start of the last step for the target
SolveLegToStepStart(leg, attachmentPoint, bodyDirection) ==
    [ leg EXCEPT !.solver =
        Solve(@, leg.stepStartPos, attachmentPoint,
              Some(CalculatePoleTarget(leg, attachmentPoint, bodyDirection)),
              leg.poleStrength, DefaultIterations) ]

\* update, the solve of the joints
SolveLeg(leg, attachmentPoint, bodyDirection) ==
    [ leg EXCEPT !.solver =
        Solve(@, leg.currentFootPos, attachmentPoint,
              Some(CalculatePoleTarget(leg, attachmentPoint, bodyDirection)),
              leg.poleStrength, DefaultIterations) ]

\* Leg.update
LegUpdate(leg, attachmentPoint, bodyDirection) ==
    LET stored == [ leg EXCEPT !.lastBodyDirection = bodyDirection ]
        checked == StartReachStep(StartWrongSideStep(stored, attachmentPoint, bodyDirection),
                                  attachmentPoint, bodyDirection)
    IN  SolveLeg(AnimateStep(checked), attachmentPoint, bodyDirection)

---------------------------------------------------------------------------
(* The page: configuration, createLegs, updateLegs and the animation loop  *)

\* the page's defaults: segmentLength, friction (in 1/100), maxAngle in degrees
SegmentLength == 20 * UNIT
Friction == 85
MaxAngleDegrees == 120
\* the start of the chain, new Chain(400, 100, ...)
StartX == 400 * UNIT
StartY == 100 * UNIT
\* legLength
LegLength == 15 * UNIT

\* generateDefaultWidths: Math.round(30 * (1 - t * 0.7)) with t = i / (numPoints - 1)
DefaultWidths(numPoints) ==
    [ i \in 0 .. numPoints - 1 |->
        UNIT * Div(30 * (10 * (numPoints - 1) - 7 * i), 10 * (numPoints - 1)) ]

\* the body direction at a spine index: in createLegs the boundary default
\* is (0, 1), in updateLegs it is (0, 0)
BodyDirection(c, attachmentIndex, defaultY) ==
    LET n == NumPoints(c)
        interior == attachmentIndex > 0 /\ attachmentIndex < n - 1
        prev == c.points[attachmentIndex - 1]
        next == c.points[attachmentIndex + 1]
        dirX == IF interior THEN next.x - prev.x ELSE 0
        dirY == IF interior THEN next.y - prev.y ELSE defaultY
        len == Hypot(dirX, dirY)
    IN  IF interior /\ (prev.nan \/ next.nan) THEN NaNPt
        ELSE IF len > 0 THEN Pt(Div(dirX * TRIG, len), Div(dirY * TRIG, len))
        ELSE Pt(dirX, dirY)

\* legAttachPoint: the spine point moved sideways by 0.4 of its width
LegAttachPoint(c, attachmentIndex, side, dir) ==
    LET attachPoint == c.points[attachmentIndex]
    IN  IF attachPoint.nan \/ dir.nan THEN NaNPt
        ELSE Offset(Pt(attachPoint.x, attachPoint.y), dir, side,
                    Div(attachPoint.width * 4, 10), 0)

\* the joints createLegs lays evenly between the attachment and the foot
SpreadJoints(leg, legAttachPoint) ==
    LET m == Cardinality(DOMAIN leg.solver.joints) - 1
        footPos == leg.currentFootPos
    IN  [ leg EXCEPT !.solver.joints =
            [ j \in 0 .. m |->
                IF j = 0 THEN legAttachPoint
                ELSE Pt(legAttachPoint.x + Div((footPos.x - legAttachPoint.x) * j, m),
                        legAttachPoint.y + Div((footPos.y - legAttachPoint.y) * j, m)) ] ]

\* createLegs, one leg of pair i
CreateLeg(c, pairsOfLegs, i, side, legSegments, legLength) ==
    LET bodyIndices == GetBodySegmentIndices(c)
        bodySegmentIndex == (i * Len(bodyIndices)) \div pairsOfLegs
        attachmentIndex == bodyIndices[Min(bodySegmentIndex, Len(bodyIndices) - 1) + 1]
        dir == BodyDirection(c, attachmentIndex, TRIG)
        legAttachPoint == LegAttachPoint(c, attachmentIndex, side, dir)
        leg == NewLeg(attachmentIndex, side, [ k \in 0 .. legSegments - 1 |-> legLength ])
    IN  SpreadJoints(InitializeAtRest(leg, legAttachPoint, dir), legAttachPoint)

\* createLegs: the legs list, left then right of each pair
CreateLegs(c, numLegs, legSegments, legLength) ==
    LET pairsOfLegs == numLegs \div 2
    IN  IF pairsOfLegs = 0 \/ Len(GetBodySegmentIndices(c)) = 0 THEN << >>
        ELSE [ k \in 1 .. 2 * pairsOfLegs |->
                 CreateLeg(c, pairsOfLegs, (k - 1) \div 2,
                           IF k % 2 = 1 THEN "left" ELSE "right", legSegments, legLength) ]

\* updateLegs: the forward component of a leg, scaled by 0.5; 0 when none is stored
LegForwardInfluence(leg, legAttachPoint, dir) ==
    LET footPos == leg.currentFootPos
        toFootX == footPos.x - legAttachPoint.x
        toFootY == footPos.y - legAttachPoint.y
        footDist == Hypot(toFootX, toFootY)
    IN  Div(Div(toFootX * dir.x + toFootY * dir.y, footDist), 2)

\* updateLegs: whether the leg stores an influence (footDist > 0)
HasInfluence(leg, legAttachPoint) ==
    /\ ~leg.currentFootPos.nan /\ ~legAttachPoint.nan
    /\ Hypot(leg.currentFootPos.x - legAttachPoint.x,
             leg.currentFootPos.y - legAttachPoint.y) > 0

\* updateLegs: the Map legInfluences after the legs up to k, given each leg's
\* attachment point and direction in inputs
RECURSIVE LegInfluences(_, _, _)
LegInfluences(ls, inputs, k) ==
    IF k = 0 THEN << >>
    ELSE LET m == LegInfluences(ls, inputs, k - 1)
             leg == ls[k]
             index == leg.attachmentIndex
             influence == LegForwardInfluence(leg, inputs[k].attachmentPoint,
                                              inputs[k].bodyDirection)
             entry == IF index \in DOMAIN m THEN m[index] ELSE [ left |-> 0, right |-> 0 ]
             stored == IF leg.side = "left" THEN [ entry EXCEPT !.left = influence ]
                       ELSE [ entry EXCEPT !.right = influence ]
         IN  IF HasInfluence(leg, inputs[k].attachmentPoint)
             THEN [ j \in DOMAIN m \cup { index } |-> IF j = index THEN stored ELSE m[j] ]
             ELSE m

\* an updateLegs that calls setLegInfluence twice for every entry of the Map
RECURSIVE ApplyInfluencesTwice(_, _, _)
ApplyInfluencesTwice(c, m, i) ==
    IF i >= NumPoints(c) THEN c
    ELSE ApplyInfluencesTwice(
             IF i \in DOMAIN m
             THEN ChainSetLegInfluence(
                      ChainSetLegInfluence(c, i, Div((m[i].left - m[i].right) * 3, 10)),
                      i, Div((m[i].left - m[i].right) * 3, 10))
             ELSE c,
             m, i + 1)

\* updateLegs: setLegInfluence for every entry of the Map
RECURSIVE ApplyInfluences(_, _, _)
ApplyInfluences(c, m, i) ==
    IF i >= NumPoints(c) THEN c
    ELSE ApplyInfluences(
             IF i \in DOMAIN m
             THEN ChainSetLegInfluence(c, i, Div((m[i].left - m[i].right) * 3, 10))
             ELSE c,
             m, i + 1)

\* updateLegs: what it passes to leg.update
LegInput(c, leg) ==
    LET dir == BodyDirection(c, leg.attachmentIndex, 0)
    IN  [ attachmentPoint |-> LegAttachPoint(c, leg.attachmentIndex, leg.side, dir),
          bodyDirection |-> dir ]

\* updateLegs: the chain and the legs it leaves
UpdateLegs(c, ls) ==
    IF Len(ls) = 0 THEN [ chain |-> c, legs |-> ls ]
    ELSE Strict(LAMBDA inputs :
             Strict(LAMBDA updated :
                 [ chain |-> ApplyInfluences(c, LegInfluences(updated, inputs, Len(ls)), 0),
                   legs |-> updated ],
                 [ k \in 1 .. Len(ls) |->
                     LegUpdate(ls[k], inputs[k].attachmentPoint, inputs[k].bodyDirection) ]),
             [ k \in 1 .. Len(ls) |-> LegInput(c, ls[k]) ])

\* a tick that runs updateLegs() before chain.update()
TickerLegsFirst(c, ls) ==
    Strict(LAMBDA r : [ chain |-> ChainUpdate(r.chain), legs |-> r.legs ],
           UpdateLegs(c, ls))

\* tickerFn after the auto-animation: chain.update(), then updateLegs()
Ticker(c, ls) == Strict(LAMBDA updatedChain : UpdateLegs(updatedChain, ls), ChainUpdate(c))

---------------------------------------------------------------------------
(* Bounds and inputs                                                       *)

\* calls of Chain.update, setHeadPosition and setLegInfluence in a behaviour
MaxUpdates == 2
MaxSetHead == 2
MaxInfluence == 1
MaxAccumulate == 2
\* calls on a Leg, changes of their arguments, and calls of initializeAtRest
MaxCalls == 8
MaxMoves == 2
MaxInits == 1
\* ticks of the animation loop and pointer events
MaxTicks == 2
MaxMouse == 2
\* calls of FABRIKSolver.solve on one solver
MaxSolves == 2
\* calls of recreateChain and recreateLegs together
MaxRecreates == 3
\* the ticks of Scenario A after its first update
ScenarioTicks == 50
\* applications of one constraint to one point
MaxConstrains == 2

\* segment configurations
Config(h, n, b) == [ headSegments |-> h, neckSegments |-> n, bodySegments |-> b ]
Configs == { Config(1, 0, 2), Config(2, 1, 2) }

\* pointer positions: 100 and 3 from the first head position, and on point 1
HeadTargets ==
    { Pt(StartX + 100 * UNIT, StartY), Pt(StartX + 3 * UNIT, StartY),
      Pt(StartX, StartY + SegmentLength) }

\* arguments of setLegInfluence
InfluenceDeltas == { Div(3 * TRIG, 10), -Div(15 * TRIG, 100) }

\* arguments of Leg.update and Leg.initializeAtRest
Attachments == { Pt(StartX, StartY), Pt(StartX + 30 * UNIT, StartY) }
Directions == { Pt(0, TRIG), Pt(TRIG, 0) }
LegSegments == 2

\* segment lengths of a solver: one segment, two equal, two unequal, three
Lengths1(a) == [ k \in 0 .. 0 |-> a ]
Lengths2(a, b) == [ k \in 0 .. 1 |-> IF k = 0 THEN a ELSE b ]
Lengths3(a) == [ k \in 0 .. 2 |-> a ]
SolverLengths ==
    { Lengths1(LegLength), Lengths2(LegLength, LegLength),
      Lengths2(LegLength, 10 * UNIT), Lengths3(LegLength) }
\* arguments of solve: the anchor, the target as an offset from the anchor
\* (at 20, at 30, at 3 and at 0 from it, and at 60, out of every reach) and
\* the bend hint, on either side of the limb
Anchors == { Pt(0, 0), Pt(10 * UNIT, 5 * UNIT) }
TargetOffsets ==
    { Pt(20 * UNIT, 0), Pt(30 * UNIT, 0), Pt(3 * UNIT, 0), Pt(0, 0),
      Pt(-36 * UNIT, 48 * UNIT) }
PoleTargets == { Undefined, Some(Pt(10 * UNIT, -50 * UNIT)), Some(Pt(10 * UNIT, 50 * UNIT)) }
\* the default of the poleStrength parameter of solve, 0.5
DefaultPoleStrength == Div(5 * TRIG, 10)

\* the segment configuration and the legs of the page
PageConfig == Config(1, 1, 2)
PageNumLegs == 2
PageLegSegments == 2
\* the settings of the page that createLegs and recreateChain read
PageSettings ==
    [ numLegs |-> PageNumLegs, legSegments |-> PageLegSegments,
      widths |-> DefaultWidths(NumPointsOf(PageConfig)) ]

---------------------------------------------------------------------------
(* State                                                                   *)

\* what the last operation was and what it was given; the rest is history
\* kept for the properties: the head speed the last update used, the head
\* at the last update and at the one before, for the limb the updates
\* since its reach was last exceeded at rest, and for the solver the
\* arguments of the last solve, and for the limb which check of the last
\* update started a step and where the foot was before that update, and
\* the spine points before the last single constraint application; for a
\* limb updated again and again with the same arguments, from an update that
\* found it RESTING: the updates of that run, the steps started in it and
\* the update of the run that started the last of them
NoObs ==
    [ op |-> "new", index |-> 0, delta |-> 0,
      headSpeed |-> 0, headNow |-> Pt(StartX, StartY), headPrior |-> Pt(StartX, StartY),
      drained |-> FALSE,
      attachmentPoint |-> Pt(0, 0), bodyDirection |-> Pt(0, TRIG),
      inside |-> FALSE, forcedAge |-> 0, steps |-> 0,
      target |-> Pt(0, 0), anchor |-> Pt(0, 0), poleTarget |-> Undefined,
      trigger |-> "none", footPrior |-> Pt(0, 0),
      pointsPrior |-> << >>,
      run |-> 0, runSteps |-> 0, runTrigger |-> 0 ]

NoBudget ==
    [ updates |-> 0, sets |-> 0, influences |-> 0,
      calls |-> 0, moves |-> 0, inits |-> 0, ticks |-> 0, mouse |-> 0, solves |-> 0,
      recreates |-> 0, constrains |-> 0 ]

HeadPt(c) == Pt(c.points[0].x, c.points[0].y)

---------------------------------------------------------------------------
(* A Chain under arbitrary calls                                           *)

InitChain ==
    /\ \E cfg \in Configs :
         chain = NewChain(StartX, StartY, cfg, SegmentLength, Friction, MaxAngleDegrees,
                          << >>)
    /\ legs = << >>
    /\ settings = PageSettings
    /\ obs = NoObs
    /\ budget = NoBudget

SetHeadPosition(x, y) ==
    /\ budget.sets < MaxSetHead
    /\ chain' = ChainSetHeadPosition(chain, x, y)
    /\ obs' = [ obs EXCEPT !.op = "setHeadPosition" ]
    /\ budget' = [ budget EXCEPT !.sets = @ + 1 ]
    /\ UNCHANGED <<legs, settings>>

Update ==
    /\ budget.updates < MaxUpdates
    /\ chain' = ChainUpdate(chain)
    /\ obs' = [ obs EXCEPT !.op = "update",
                           !.headSpeed = HeadSpeed(chain),
                           !.headNow = HeadPt(chain),
                           !.headPrior = obs.headNow,
                           !.drained = \E i \in DOMAIN chain.points :
                                          chain.points[i].legInfluence # 0 ]
    /\ budget' = [ budget EXCEPT !.updates = @ + 1 ]
    /\ UNCHANGED <<legs, settings>>

SetLegInfluence(index, angleInfluence, limit) ==
    /\ budget.influences < limit
    /\ chain' = ChainSetLegInfluence(chain, index, angleInfluence)
    /\ obs' = [ obs EXCEPT !.op = "setLegInfluence", !.index = index,
                           !.delta = angleInfluence ]
    /\ budget' = [ budget EXCEPT !.influences = @ + 1 ]
    /\ UNCHANGED <<legs, settings>>

NextChain ==
    \/ \E p \in HeadTargets : SetHeadPosition(p.x, p.y)
    \/ Update
    \/ SetLegInfluence(BodyStartIndex(chain), Div(3 * TRIG, 10), MaxInfluence)

SpecChain == InitChain /\ [][NextChain]_vars

\* the accumulators alone: setLegInfluence with any index, and update
NextInfluence ==
    \/ \E index \in { -1, BodyStartIndex(chain), NumPoints(chain) }, d \in InfluenceDeltas :
         SetLegInfluence(index, d, MaxAccumulate)
    \/ Update

SpecInfluence == InitChain /\ [][NextInfluence]_vars

\* the head moved by small steps: by the undulation threshold 0.5, by less
\* than the cap 3 of the phase advance, and by more
SmallHeadTargets ==
    { Pt(StartX + Div(5 * UNIT, 10), StartY), Pt(StartX + 2 * UNIT, StartY),
      Pt(StartX + 4 * UNIT, StartY) }

NextUndulation ==
    \/ \E p \in SmallHeadTargets : SetHeadPosition(p.x, p.y)
    \/ Update

SpecUndulation == InitChain /\ [][NextUndulation]_vars

---------------------------------------------------------------------------
(* A Leg under arbitrary calls                                             *)

\* the reach of the limb is exceeded while it rests
ReachForced(leg, attachmentPoint) ==
    /\ ~leg.isMoving
    /\ ~leg.currentFootPos.nan /\ ~attachmentPoint.nan
    /\ Hypot(leg.currentFootPos.x - attachmentPoint.x,
             leg.currentFootPos.y - attachmentPoint.y) * 100 > 95 * leg.maxLegReach

\* the foot lies in the valid arc: far enough out on the limb's own side,
\* and within reach
InsideValidArc(leg, attachmentPoint, bodyDirection) ==
    /\ ~leg.currentFootPos.nan /\ ~attachmentPoint.nan /\ ~bodyDirection.nan
    /\ SideMultiplier(leg.side) * PerpDot(leg.currentFootPos, attachmentPoint, bodyDirection)
         * 100 >= 25 * leg.maxLegReach
    /\ Hypot(leg.currentFootPos.x - attachmentPoint.x,
             leg.currentFootPos.y - attachmentPoint.y) * 100 <= 95 * leg.maxLegReach

InitLeg ==
    /\ chain = NewChain(StartX, StartY, Config(1, 0, 2), SegmentLength, Friction,
                        MaxAngleDegrees, << >>)
    /\ \E side \in { "left", "right" } :
         legs = << NewLeg(1, side, [ k \in 0 .. LegSegments - 1 |-> LegLength ]) >>
    /\ settings = PageSettings
    /\ obs = NoObs
    /\ budget = NoBudget

\* the arguments change from those of the call before
Moved(attachmentPoint, bodyDirection) ==
    /\ budget.calls > 0
    /\ <<attachmentPoint, bodyDirection>> # <<obs.attachmentPoint, obs.bodyDirection>>

CallBudget(attachmentPoint, bodyDirection) ==
    /\ budget.calls < MaxCalls
    /\ Moved(attachmentPoint, bodyDirection) => budget.moves < MaxMoves
    /\ budget' = [ budget EXCEPT
                     !.calls = @ + 1,
                     !.moves = IF Moved(attachmentPoint, bodyDirection) THEN @ + 1 ELSE @ ]

LegInitializeAtRest(attachmentPoint, bodyDirection) ==
    /\ budget.inits < MaxInits
    /\ budget.calls < MaxCalls
    /\ Moved(attachmentPoint, bodyDirection) => budget.moves < MaxMoves
    /\ budget' = [ budget EXCEPT
                     !.calls = @ + 1,
                     !.inits = @ + 1,
                     !.moves = IF Moved(attachmentPoint, bodyDirection) THEN @ + 1 ELSE @ ]
    /\ legs' = << InitializeAtRest(legs[1], attachmentPoint, bodyDirection) >>
    /\ obs' = [ obs EXCEPT !.op = "initializeAtRest",
                           !.attachmentPoint = attachmentPoint,
                           !.bodyDirection = bodyDirection,
                           !.run = 0, !.runSteps = 0, !.runTrigger = 0 ]
    /\ UNCHANGED <<chain, settings>>

\* the update repeats the arguments of the update before it, in a run
RunContinues(attachmentPoint, bodyDirection) ==
    /\ obs.op = "update"
    /\ obs.run > 0
    /\ attachmentPoint = obs.attachmentPoint
    /\ bodyDirection = obs.bodyDirection

\* the number of this update in its run; a run begins with a RESTING limb
RunAfter(attachmentPoint, bodyDirection) ==
    IF RunContinues(attachmentPoint, bodyDirection) THEN obs.run + 1
    ELSE IF ~legs[1].isMoving THEN 1
    ELSE 0

LegUpdateCall(attachmentPoint, bodyDirection) ==
    /\ CallBudget(attachmentPoint, bodyDirection)
    /\ legs' = << LegUpdate(legs[1], attachmentPoint, bodyDirection) >>
    /\ obs' = [ obs EXCEPT
                  !.op = "update",
                  !.attachmentPoint = attachmentPoint,
                  !.bodyDirection = bodyDirection,
                  !.inside = ~legs[1].isMoving
                             /\ InsideValidArc(legs[1], attachmentPoint, bodyDirection),
                  !.forcedAge = IF ReachForced(legs[1], attachmentPoint) THEN 1
                                ELSE IF @ = 0 \/ @ >= 7 THEN 0
                                ELSE @ + 1,
                  !.steps = (IF ReachForced(legs[1], attachmentPoint) THEN 0 ELSE @)
                            + (IF ~legs[1].isMoving /\ legs'[1].isMoving THEN 1 ELSE 0),
                  !.trigger = IF legs[1].isMoving THEN "none"
                              ELSE IF IsOnWrongSide(legs[1], attachmentPoint, bodyDirection)
                              THEN "wrongSide"
                              ELSE IF ExceedsReach(legs[1], attachmentPoint) THEN "reach"
                              ELSE "none",
                  !.footPrior = legs[1].currentFootPos,
                  !.run = RunAfter(attachmentPoint, bodyDirection),
                  !.runSteps =
                      IF RunAfter(attachmentPoint, bodyDirection) = 0 THEN 0
                      ELSE (IF RunContinues(attachmentPoint, bodyDirection) THEN @ ELSE 0)
                           + (IF ~legs[1].isMoving /\ legs'[1].isMoving THEN 1 ELSE 0),
                  !.runTrigger =
                      IF RunAfter(attachmentPoint, bodyDirection) = 0 THEN 0
                      ELSE IF ~legs[1].isMoving /\ legs'[1].isMoving
                      THEN RunAfter(attachmentPoint, bodyDirection)
                      ELSE IF RunContinues(attachmentPoint, bodyDirection) THEN @
                      ELSE 0 ]
    /\ UNCHANGED <<chain, settings>>

NextLeg ==
    \E attachmentPoint \in Attachments, bodyDirection \in Directions :
        \/ LegInitializeAtRest(attachmentPoint, bodyDirection)
        \/ LegUpdateCall(attachmentPoint, bodyDirection)

SpecLeg == InitLeg /\ [][NextLeg]_vars

---------------------------------------------------------------------------
(* A FABRIKSolver under arbitrary calls: the solver of a Leg, called as    *)
(* Leg.update calls it but with any arguments                              *)

TheSolver == legs[1].solver

InitSolver ==
    /\ chain = NewChain(StartX, StartY, Config(1, 0, 2), SegmentLength, Friction,
                        MaxAngleDegrees, << >>)
    /\ \E segmentLengths \in SolverLengths : legs = << NewLeg(1, "left", segmentLengths) >>
    /\ settings = PageSettings
    /\ obs = NoObs
    /\ budget = NoBudget

SolveCall(target, anchor, poleTarget) ==
    /\ budget.solves < MaxSolves
    /\ legs' = << [ legs[1] EXCEPT !.solver =
                      Solve(@, target, anchor, poleTarget, DefaultPoleStrength,
                            DefaultIterations) ] >>
    /\ obs' = [ obs EXCEPT !.op = "solve", !.target = target, !.anchor = anchor,
                           !.poleTarget = poleTarget ]
    /\ budget' = [ budget EXCEPT !.solves = @ + 1 ]
    /\ UNCHANGED <<chain, settings>>

NextSolver ==
    \E anchor \in Anchors, offset \in TargetOffsets, poleTarget \in PoleTargets :
        SolveCall(Pt(anchor.x + offset.x, anchor.y + offset.y), anchor, poleTarget)

SpecSolver == InitSolver /\ [][NextSolver]_vars

---------------------------------------------------------------------------
(* The page: the animation loop and the pointer                            *)

\* the head velocity of the auto-animation, at most maxSpeed
Velocities == { Pt(3 * UNIT, 0) }
\* pointer positions
MouseTargets == { Pt(StartX + 30 * UNIT, StartY), Pt(StartX, StartY + SegmentLength) }

Init ==
    /\ chain = NewChain(StartX, StartY, PageConfig, SegmentLength, Friction,
                        MaxAngleDegrees, DefaultWidths(NumPointsOf(PageConfig)))
    /\ legs = CreateLegs(chain, PageNumLegs, PageLegSegments, LegLength)
    /\ settings = PageSettings
    /\ obs = NoObs
    /\ budget = NoBudget

\* tickerFn on the chain c that the auto-animation leaves
Tick(c) ==
    /\ budget.ticks < MaxTicks
    /\ \E r \in { Ticker(c, legs) } :
           /\ chain' = r.chain
           /\ legs' = r.legs
    /\ obs' = [ obs EXCEPT !.op = "tick",
                           !.headSpeed = HeadSpeed(c),
                           !.headNow = HeadPt(c),
                           !.headPrior = obs.headNow ]
    /\ budget' = [ budget EXCEPT !.ticks = @ + 1 ]
    /\ UNCHANGED settings

\* tickerFn with autoAnimate off
TickerFn == Tick(chain)

\* tickerFn with autoAnimate on: handleAutoAnimation moves the head by the velocity
TickerFnAuto(velocity) ==
    Tick(ChainSetHeadPosition(chain, chain.points[0].x + velocity.x,
                              chain.points[0].y + velocity.y))

\* handleMouseDown, handleMouseMove: updateChainHead
UpdateChainHead(x, y) ==
    /\ budget.mouse < MaxMouse
    /\ chain' = ChainSetHeadPosition(chain, x, y)
    /\ obs' = [ obs EXCEPT !.op = "updateChainHead" ]
    /\ budget' = [ budget EXCEPT !.mouse = @ + 1 ]
    /\ UNCHANGED <<legs, settings>>

Next ==
    \/ TickerFn
    \/ \E velocity \in Velocities : TickerFnAuto(velocity)
    \/ \E p \in MouseTargets : UpdateChainHead(p.x, p.y)

Spec == Init /\ [][Next]_vars

---------------------------------------------------------------------------
(* The page: the segment and leg sliders                                   *)

\* the segment sliders: head 1..3, neck 0..5, body 2..20
SliderConfigs == { Config(1, 0, 2), Config(1, 1, 4) }
\* the leg sliders: numLegs in steps of 2, legSegments 1..5
SliderNumLegs == { 0, 2, 4 }
SliderLegSegments == { 1, 2 }

\* recreateChain: the widths kept, cut or continued with the default taper
AdjustWidths(widths, numPoints) ==
    IF Cardinality(DOMAIN widths) = numPoints THEN widths
    ELSE [ i \in 0 .. numPoints - 1 |->
             IF i < Cardinality(DOMAIN widths) THEN widths[i]
             ELSE DefaultWidths(numPoints)[i] ]

\* recreateChain with the segment sliders at cfg: a new chain at the head,
\* then createLegs
RecreateChain(cfg) ==
    /\ budget.recreates < MaxRecreates
    /\ \E newWidths \in { AdjustWidths(settings.widths, NumPointsOf(cfg)) } :
        \E newChain \in { NewChain(chain.points[0].x, chain.points[0].y, cfg, SegmentLength,
                                   Friction, MaxAngleDegrees, newWidths) } :
           /\ settings' = [ settings EXCEPT !.widths = newWidths ]
           /\ chain' = newChain
           /\ legs' = CreateLegs(newChain, settings.numLegs, settings.legSegments, LegLength)
    /\ obs' = [ obs EXCEPT !.op = "recreateChain" ]
    /\ budget' = [ budget EXCEPT !.recreates = @ + 1 ]

\* recreateLegs with the leg sliders at numLegs and legSegments; the
\* numLegs slider ends at floor(bodySegments / 2) * 2
RecreateLegs(numLegs, legSegments) ==
    /\ budget.recreates < MaxRecreates
    /\ numLegs <= (chain.segmentConfig.bodySegments \div 2) * 2
    /\ settings' = [ settings EXCEPT !.numLegs = numLegs, !.legSegments = legSegments ]
    /\ legs' = CreateLegs(chain, numLegs, legSegments, LegLength)
    /\ obs' = [ obs EXCEPT !.op = "recreateLegs" ]
    /\ budget' = [ budget EXCEPT !.recreates = @ + 1 ]
    /\ UNCHANGED chain

NextRecreate ==
    \/ \E cfg \in SliderConfigs : RecreateChain(cfg)
    \/ \E numLegs \in SliderNumLegs, legSegments \in SliderLegSegments :
          RecreateLegs(numLegs, legSegments)
    \/ \E velocity \in Velocities : TickerFnAuto(velocity)

SpecRecreate == Init /\ [][NextRecreate]_vars

---------------------------------------------------------------------------
(* Scenario A: the 9-point spine, its head moved once, then ticks          *)

ScenarioConfig == Config(1, 2, 6)
\* where the head is moved to
ScenarioHeads ==
    { Pt(500 * UNIT, 100 * UNIT), Pt(430 * UNIT, 100 * UNIT), Pt(400 * UNIT, 40 * UNIT) }

InitScenario ==
    /\ chain = NewChain(StartX, StartY, ScenarioConfig, SegmentLength, Friction,
                        MaxAngleDegrees, DefaultWidths(NumPointsOf(ScenarioConfig)))
    /\ legs = << >>
    /\ settings = PageSettings
    /\ obs = NoObs
    /\ budget = NoBudget

\* setHeadPosition, once
MoveHead(x, y) ==
    /\ budget.sets = 0
    /\ chain' = ChainSetHeadPosition(chain, x, y)
    /\ obs' = [ obs EXCEPT !.op = "setHeadPosition" ]
    /\ budget' = [ budget EXCEPT !.sets = @ + 1 ]
    /\ UNCHANGED <<legs, settings>>

\* the update after the move and the ticks that follow it: with the pointer
\* at rest tickerFn calls chain.update() and nothing else on the chain
UpdateHeld ==
    /\ budget.sets = 1
    /\ budget.updates < 1 + ScenarioTicks
    /\ \E r \in { ChainUpdate(chain) } : chain' = r
    /\ obs' = [ obs EXCEPT !.op = "update",
                           !.headSpeed = HeadSpeed(chain),
                           !.headNow = HeadPt(chain),
                           !.headPrior = obs.headNow ]
    /\ budget' = [ budget EXCEPT !.updates = @ + 1 ]
    /\ UNCHANGED <<legs, settings>>

NextScenario ==
    \/ \E p \in ScenarioHeads : MoveHead(p.x, p.y)
    \/ UpdateHeld

SpecScenario == InitScenario /\ [][NextScenario]_vars

---------------------------------------------------------------------------
(* One application of the angle constraint                                 *)

\* maxAngle in degrees (the slider goes from 30 to 180 in steps of 5)
MaxAngleChoices == { 60, 90, 120 }
\* the direction of the outgoing segment, in steps of 15 degrees
TailTurns == 0 .. 23

\* a chain of three points whose tail is at the segment length from point 1,
\* turned by the angle turn from the direction of the first segment
BentChain(maxAngleDegrees, turn) ==
    LET c == NewChain(StartX, StartY, Config(1, 0, 2), SegmentLength, Friction,
                      maxAngleDegrees, << >>)
        angle == Div(turn * Pi, 12)
    IN  [ c EXCEPT !.points[2].x = c.points[1].x - Mul(Sin(angle), SegmentLength),
                   !.points[2].y = c.points[1].y + Mul(Cos(angle), SegmentLength) ]

InitAngle ==
    /\ \E maxAngleDegrees \in MaxAngleChoices, turn \in TailTurns :
         chain = BentChain(maxAngleDegrees, turn)
    /\ legs = << >>
    /\ settings = PageSettings
    /\ obs = NoObs
    /\ budget = NoBudget

\* the body of the loop of applyAngleConstraints, once, for the interior point i
ConstrainAngleCall(i) ==
    /\ budget.constrains < MaxConstrains
    /\ chain' = [ chain EXCEPT !.points = ConstrainAngle(chain, chain.points, i) ]
    /\ obs' = [ obs EXCEPT !.op = "constrainAngle", !.index = i,
                           !.pointsPrior = chain.points ]
    /\ budget' = [ budget EXCEPT !.constrains = @ + 1 ]
    /\ UNCHANGED <<legs, settings>>

NextAngle == ConstrainAngleCall(1)

SpecAngle == InitAngle /\ [][NextAngle]_vars

---------------------------------------------------------------------------
(* One application of the curvature influence                              *)

CurvedConfig == Config(1, 1, 3)

\* a chain of five points, straight up to point 3, whose last segment is
\* turned by the angle turn
CurvedChain(turn) ==
    LET c == NewChain(StartX, StartY, CurvedConfig, SegmentLength, Friction,
                      MaxAngleDegrees, << >>)
        angle == Div(turn * Pi, 12)
    IN  [ c EXCEPT !.points[4].x = c.points[3].x - Mul(Sin(angle), SegmentLength),
                   !.points[4].y = c.points[3].y + Mul(Cos(angle), SegmentLength) ]

InitCurvature ==
    /\ \E turn \in TailTurns : chain = CurvedChain(turn)
    /\ legs = << >>
    /\ settings = PageSettings
    /\ obs = NoObs
    /\ budget = NoBudget

\* applyLegInfluence, once
ApplyLegInfluenceCall ==
    /\ budget.constrains < MaxConstrains
    /\ chain' = [ chain EXCEPT !.points = ApplyLegInfluence(chain, chain.points) ]
    /\ obs' = [ obs EXCEPT !.op = "applyLegInfluence", !.pointsPrior = chain.points ]
    /\ budget' = [ budget EXCEPT !.constrains = @ + 1 ]
    /\ UNCHANGED <<legs, settings>>

NextCurvature ==
    \/ \E index \in { 1, 2, 3 }, d \in InfluenceDeltas :
          SetLegInfluence(index, d, MaxAccumulate)
    \/ ApplyLegInfluenceCall

SpecCurvature == InitCurvature /\ [][NextCurvature]_vars

---------------------------------------------------------------------------
(* Properties                                                              *)

\* the only leg of SpecLeg, and the distance of the spine points i and i + 1
TheLeg == legs[1]
AdjacentDistance(c, i) ==
    Hypot(c.points[i + 1].x - c.points[i].x, c.points[i + 1].y - c.points[i].y)

\* C1: an update of a RESTING limb whose foot is inside the valid arc (at
\* least 0.25 of the reach out on its own side, at most 0.95 of the reach
\* away) leaves the limb RESTING
RestingInsideArcStaysResting ==
    (obs.op = "update" /\ obs.inside) => ~TheLeg.isMoving

\* an update found the limb at rest with its foot inside the arc, after the
\* attachment had moved from where the limb was laid at rest
RestingInsideArcUpdated ==
    /\ obs.op = "update"
    /\ obs.inside
    /\ budget.moves > 0

\* C2: the a-th update since the reach was exceeded at rest has seen one
\* transition to STEPPING, the progress is 0.15 a, and the step ends with
\* progress 1 at the seventh update, not before the sixth
ForcedStepTakesSevenUpdates ==
    obs.forcedAge > 0 =>
        /\ obs.steps = 1
        /\ TheLeg.stepProgress = Min(UNIT, Div(15 * UNIT * obs.forcedAge, 100))
        /\ obs.forcedAge < 6 => TheLeg.isMoving
        /\ obs.forcedAge = 7 => ~TheLeg.isMoving /\ TheLeg.stepProgress = UNIT

\* the seventh update after the reach was exceeded
ForcedStepEnded ==
    /\ obs.op = "update"
    /\ obs.forcedAge = 7
    /\ ~TheLeg.isMoving

\* C3: stepProgress is in [0, 1], and below 1 while the limb is STEPPING
\* after an update
StepProgressInRange ==
    /\ TheLeg.stepProgress >= 0
    /\ TheLeg.stepProgress <= UNIT
    /\ (obs.op = "update" /\ TheLeg.isMoving) => TheLeg.stepProgress < UNIT

\* the update that ends a step: the progress would have passed 1
StepProgressClamped ==
    /\ obs.op = "update"
    /\ ~TheLeg.isMoving
    /\ TheLeg.stepProgress = UNIT
    /\ obs.forcedAge = 7

\* C4: after a tick every limb holds the tangent and the attachment point of
\* the spine as Chain.update of that tick left it
LegsReadUpdatedSpine ==
    obs.op = "tick" =>
        \A k \in DOMAIN legs :
            /\ legs[k].lastBodyDirection = LegInput(chain, legs[k]).bodyDirection
            /\ legs[k].solver.joints[0] = LegInput(chain, legs[k]).attachmentPoint

\* a tick whose Chain.update moved the spine under the limbs: the head is
\* away from its start and the tangent is no longer the initial one
TickMovedSpine ==
    /\ obs.op = "tick"
    /\ obs.headNow # Pt(StartX, StartY)
    /\ \E k \in DOMAIN legs :
          /\ ~legs[k].lastBodyDirection.nan
          /\ legs[k].lastBodyDirection # Pt(0, TRIG)

\* C5: after Chain.update every accumulator is zero, so that what was written
\* before it bends nothing in the update after it
InfluenceDrained ==
    obs.op = "update" =>
        /\ \A i \in DOMAIN chain.points : chain.points[i].legInfluence = 0
        /\ ApplyLegInfluence(chain, chain.points) = chain.points

\* an update that found an accumulator written
WrittenInfluenceDrained ==
    /\ obs.op = "update"
    /\ obs.drained

\* C6: setLegInfluence(index, d) with an index out of range changes nothing;
\* with an index in range it adds d to that accumulator and changes no other
\* accumulator, no position and nothing else of the chain
SetLegInfluenceAccumulates ==
    [][ (obs'.op = "setLegInfluence" /\ budget'.influences = budget.influences + 1) =>
          LET index == obs'.index
              d == obs'.delta
          IN  IF index < 0 \/ index >= NumPoints(chain)
              THEN chain' = chain
              ELSE /\ DOMAIN chain'.points = DOMAIN chain.points
                   /\ \A i \in DOMAIN chain.points :
                         /\ chain'.points[i].legInfluence =
                              chain.points[i].legInfluence + (IF i = index THEN d ELSE 0)
                         /\ [ chain'.points[i] EXCEPT !.legInfluence = 0 ]
                              = [ chain.points[i] EXCEPT !.legInfluence = 0 ]
                   /\ [ chain' EXCEPT !.points = << >> ] = [ chain EXCEPT !.points = << >> ]
      ]_vars

\* two calls on one index since the last update: the accumulator holds the sum
TwoInfluencesSummed ==
    /\ obs.op = "setLegInfluence"
    /\ budget.influences = 2
    /\ budget.updates = 0
    /\ chain.points[BodyStartIndex(chain)].legInfluence = 2 * Div(3 * TRIG, 10)

\* C7: the head speed an update uses is the distance between the head at
\* this update and the head at the update before
HeadSpeedIsDistanceSincePriorUpdate ==
    obs.op = "update" =>
        obs.headSpeed = Hypot(obs.headNow.x - obs.headPrior.x,
                              obs.headNow.y - obs.headPrior.y)

\* C8: point 0 is pinned in every state, and Chain.update leaves its position
\* and its previous position as they are
HeadPinnedAndExternallyDriven ==
    /\ [](chain.points[0].pinned)
    /\ [][ obs'.op = "update" =>
             /\ chain'.points[0].x = chain.points[0].x
             /\ chain'.points[0].y = chain.points[0].y
             /\ chain'.points[0].prevX = chain.points[0].prevX
             /\ chain'.points[0].prevY = chain.points[0].prevY
             /\ chain'.points[0].nan = chain.points[0].nan ]_vars

\* an update after the head was moved: the update saw a head speed, and the
\* head is still where setHeadPosition put it
UpdatedWithHeadMoved ==
    /\ obs.op = "update"
    /\ obs.headSpeed > 0
    /\ chain.points[0].x # chain.points[0].prevX

\* the segment configurations of the constructor
MaxHeadSegments == 3
MaxNeckSegments == 2
MaxBodySegments == 3
SegmentConfigs ==
    { Config(h, n, b) : h \in 1 .. MaxHeadSegments, n \in 0 .. MaxNeckSegments,
                        b \in 2 .. MaxBodySegments }

\* the points of c are those of its segment configuration, tagged by ranges
PointsAsConfigured(c) ==
    LET cfg == c.segmentConfig
    IN  /\ DOMAIN c.points = 0 .. cfg.headSegments + cfg.neckSegments + cfg.bodySegments - 1
        /\ \A i \in DOMAIN c.points :
              c.points[i].segmentType =
                  CASE i < cfg.headSegments -> "head"
                    [] i >= cfg.headSegments /\ i < cfg.headSegments + cfg.neckSegments -> "neck"
                    [] OTHER -> "body"

\* the points of c lie on the line down from (startX, startY), at rest
PointsLaidOut(c, startX, startY) ==
    \A i \in DOMAIN c.points :
        /\ c.points[i].x = startX
        /\ c.points[i].y = startY + i * c.segmentLength
        /\ c.points[i].prevX = c.points[i].x
        /\ c.points[i].prevY = c.points[i].y

\* C9: a constructed chain has headSegments + neckSegments + bodySegments
\* points, tagged head, neck and body by ranges, laid at (startX, startY +
\* i segmentLength) with the previous position on the position; the count
\* and the tags stay under update, setHeadPosition and setLegInfluence
ChainAsConstructed ==
    /\ \A cfg \in SegmentConfigs :
          LET c == NewChain(StartX, StartY, cfg, SegmentLength, Friction,
                            MaxAngleDegrees, << >>)
          IN  /\ c.segmentConfig = cfg
              /\ PointsAsConfigured(c)
              /\ PointsLaidOut(c, StartX, StartY)
    /\ PointsAsConfigured(chain)
    /\ obs.op = "new" => PointsLaidOut(chain, StartX, StartY)

\* a chain with head, neck and body points after all three operations
ConfiguredChainOperated ==
    /\ chain.segmentConfig.neckSegments > 0
    /\ budget.updates > 0
    /\ budget.sets > 0
    /\ budget.influences > 0

\* C10: after Chain.update every adjacent distance is within 0.01 of the
\* segment length.  Stated with the tolerance 0.1, ten times the claimed
\* one and well above the resolution 1/UNIT of a coordinate, and for the
\* updates that leave every coordinate a number
AdjacentDistancesConverged ==
    (obs.op = "update" /\ \A i \in DOMAIN chain.points : ~chain.points[i].nan) =>
        \A i \in DOMAIN chain.points :
            (i + 1) \in DOMAIN chain.points =>
                Abs(AdjacentDistance(chain, i) - chain.segmentLength) <= Div(UNIT, 10)

\* the angle applyAngleConstraints measures at the interior point i: 0 when
\* the two segments are in line, Pi when the second folds back on the first
TurnAngle(pts, i) ==
    LET v1x == pts[i].x - pts[i - 1].x
        v1y == pts[i].y - pts[i - 1].y
        v2x == pts[i + 1].x - pts[i].x
        v2y == pts[i + 1].y - pts[i].y
        len1 == Hypot(v1x, v1y)
        len2 == Hypot(v2x, v2y)
    IN  Acos(Max(-TRIG, Min(TRIG,
            Div(Div(v1x * TRIG, len1) * Div(v2x * TRIG, len2)
                + Div(v1y * TRIG, len1) * Div(v2y * TRIG, len2), TRIG))))

\* the interior points of the spine whose two segments have a length
Measurable(pts) ==
    { i \in DOMAIN pts :
        /\ (i - 1) \in DOMAIN pts /\ (i + 1) \in DOMAIN pts
        /\ ~pts[i - 1].nan /\ ~pts[i].nan /\ ~pts[i + 1].nan
        /\ Hypot(pts[i].x - pts[i - 1].x, pts[i].y - pts[i - 1].y) > 0
        /\ Hypot(pts[i + 1].x - pts[i].x, pts[i + 1].y - pts[i].y) > 0 }

\* the epsilon allowed on the turn angle, 0.02 rad
AngleEps == Div(2 * TRIG, 100)

\* C11: after Chain.update the turn angle at every interior point is at most
\* maxAngle plus 0.02 rad
TurnAngleWithinMaxAngle ==
    obs.op = "update" =>
        \A i \in Measurable(chain.points) :
            TurnAngle(chain.points, i) <= chain.maxAngle + AngleEps

\* the distance of two points, and of the anchor and the target of the last solve
Distance(p, q) == Hypot(q.x - p.x, q.y - p.y)
SolveDistance == Distance(obs.anchor, obs.target)

\* the last operation was a solve whose target was out of reach
SolvedUnreachable == obs.op = "solve" /\ SolveDistance > TheSolver.totalLength

\* the point at the distance along from the anchor on the ray to the target
OnRay(along) ==
    Pt(obs.anchor.x + Div((obs.target.x - obs.anchor.x) * along, SolveDistance),
       obs.anchor.y + Div((obs.target.y - obs.anchor.y) * along, SolveDistance))

\* what rounding to 1/UNIT may add up to over the joints of a limb, 0.03
RoundingEps == Div(3 * UNIT, 100)

\* C12: after a solve whose target is farther from the anchor than the total
\* length, joint 0 is the anchor and joint i is on the ray from the anchor
\* to the target, at lengths[0] + ... + lengths[i - 1] from the anchor
UnreachableTargetExtendsStraight ==
    SolvedUnreachable =>
        /\ TheSolver.joints[0] = obs.anchor
        /\ \A i \in DOMAIN TheSolver.joints :
              /\ ~TheSolver.joints[i].nan
              /\ Abs(TheSolver.joints[i].x - OnRay(SumTo(TheSolver.lengths, i)).x) <= RoundingEps
              /\ Abs(TheSolver.joints[i].y - OnRay(SumTo(TheSolver.lengths, i)).y) <= RoundingEps

\* a second solve, out of reach, on a solver of unequal segments that an
\* earlier solve had bent, with a bend hint and an anchor off the origin
UnreachableAfterBend ==
    /\ SolvedUnreachable
    /\ budget.solves = 2
    /\ TheSolver.lengths = Lengths2(LegLength, 10 * UNIT)
    /\ obs.poleTarget.defined
    /\ obs.anchor # Pt(0, 0)
    /\ obs.target.y # obs.anchor.y

\* the last operation was a solve by the closed form: two segments, a bend
\* hint, and a target within the total length
SolvedTwoSegment ==
    /\ obs.op = "solve"
    /\ DOMAIN TheSolver.joints = 0 .. 2
    /\ obs.poleTarget.defined
    /\ SolveDistance <= TheSolver.totalLength

\* the tolerance on a segment length, 0.05
LengthEps == Div(5 * UNIT, 100)

\* C13: after a two-segment solve with a bend hint and a target within
\* reach, the middle joint is at len1 from the anchor and at len2 from the
\* target
TwoSegmentLengthsExact ==
    SolvedTwoSegment =>
        /\ ~TheSolver.joints[1].nan
        /\ Abs(Distance(obs.anchor, TheSolver.joints[1]) - TheSolver.lengths[0]) <= LengthEps
        /\ Abs(Distance(TheSolver.joints[1], obs.target) - TheSolver.lengths[1]) <= LengthEps

\* the cross product (target - anchor) x (p - anchor) of the last solve
SideOf(p) ==
    (obs.target.x - obs.anchor.x) * (p.y - obs.anchor.y)
    - (obs.target.y - obs.anchor.y) * (p.x - obs.anchor.x)

\* C14: after a two-segment solve with a bend hint off the line from the
\* anchor to the target, the middle joint is off that line on the side of
\* the hint
MiddleJointOnHintSide ==
    (SolvedTwoSegment /\ SideOf(obs.poleTarget) # 0) =>
        /\ SideOf(TheSolver.joints[1]) # 0
        /\ Sign(SideOf(TheSolver.joints[1])) = Sign(SideOf(obs.poleTarget))

\* lengths [15, 15], anchor (0, 0), target (20, 0), hint (10, -50): the
\* middle joint has a negative y
HintBelowBendsBelow ==
    /\ SolvedTwoSegment
    /\ TheSolver.lengths = Lengths2(LegLength, LegLength)
    /\ obs.anchor = Pt(0, 0)
    /\ obs.target = Pt(20 * UNIT, 0)
    /\ obs.poleTarget = Some(Pt(10 * UNIT, -50 * UNIT))
    /\ TheSolver.joints[1].y < 0

\* the last joint of the solver
LastJoint == TheSolver.joints[Cardinality(DOMAIN TheSolver.joints) - 1]

\* the tolerance on the end effector, 0.5: five times the distance at which
\* solve stops iterating
ReachEps == 5 * CloseEnough

\* C15: after a solve joint 0 is the anchor, and the last joint is on the
\* target when the target is within the total length
SolveAnchorsAndReaches ==
    obs.op = "solve" =>
        /\ TheSolver.joints[0] = obs.anchor
        /\ SolveDistance <= TheSolver.totalLength =>
              /\ ~LastJoint.nan
              /\ Distance(LastJoint, obs.target) <= ReachEps

\* C16: after a solve the solver has one joint more than segments, the
\* lengths and their total are what they were, and the joints i and i + 1
\* are lengths[i] apart
SolveKeepsSegmentLengths ==
    obs.op = "solve" =>
        /\ DOMAIN TheSolver.joints = 0 .. Cardinality(DOMAIN TheSolver.lengths)
        /\ TheSolver.lengths \in SolverLengths
        /\ TheSolver.totalLength = SumTo(TheSolver.lengths, Cardinality(DOMAIN TheSolver.lengths))
        /\ \A i \in DOMAIN TheSolver.lengths :
              /\ ~TheSolver.joints[i].nan /\ ~TheSolver.joints[i + 1].nan
              /\ Abs(Distance(TheSolver.joints[i], TheSolver.joints[i + 1])
                      - TheSolver.lengths[i]) <= LengthEps

\* the legs of one side attached at a spine index
LegsAt(index, side) ==
    { k \in DOMAIN legs : legs[k].attachmentIndex = index /\ legs[k].side = side }

\* C17: after any createLegs, recreateChain, recreateLegs and ticks, every
\* limb is attached at the index of a body-type point of the current chain,
\* the limbs are the pairs that were asked for, each pair a left and a right
\* limb on one index, so that every index carries as many left as right limbs
LimbsAttachToBodyPoints ==
    /\ Len(legs) = 2 * (settings.numLegs \div 2)
    /\ \A k \in DOMAIN legs :
         /\ legs[k].attachmentIndex \in DOMAIN chain.points
         /\ chain.points[legs[k].attachmentIndex].segmentType = "body"
         /\ legs[k].side = (IF k % 2 = 1 THEN "left" ELSE "right")
         /\ k % 2 = 1 => legs[k + 1].attachmentIndex = legs[k].attachmentIndex
    /\ \A index \in DOMAIN chain.points :
         Cardinality(LegsAt(index, "left")) = Cardinality(LegsAt(index, "right"))
    /\ settings.numLegs <= (chain.segmentConfig.bodySegments \div 2) * 2 =>
         \A index \in DOMAIN chain.points : Cardinality(LegsAt(index, "left")) <= 1

\* a tick after the segments and the legs were both recreated: four limbs
\* on a chain that has a neck
RecreatedLimbsTicked ==
    /\ obs.op = "tick"
    /\ budget.recreates = 2
    /\ chain.segmentConfig # PageConfig
    /\ chain.segmentConfig.neckSegments > 0
    /\ Len(legs) = 4

\* C18: every division by a computed distance is guarded, so that in every
\* reachable state no coordinate of a spine point or of a limb joint is NaN
\* or infinite
NoCoordinateIsNaN ==
    /\ \A i \in DOMAIN chain.points : ~chain.points[i].nan
    /\ \A k \in DOMAIN legs :
         \A j \in DOMAIN legs[k].solver.joints : ~legs[k].solver.joints[j].nan

\* what "approximately the segment length" allows, 1
ApproxEps == UNIT
\* what "a straight line within epsilon" allows on a turn angle, 0.1 rad
StraightEps == Div(TRIG, 10)

\* the adjacent distances of the spine are all approximately the segment length
DistancesApproximate ==
    \A i \in DOMAIN chain.points :
        (i + 1) \in DOMAIN chain.points =>
            Abs(AdjacentDistance(chain, i) - chain.segmentLength) <= ApproxEps

\* the spine is a straight line: no interior point turns
SettledStraight ==
    \A i \in DOMAIN chain.points :
        ((i - 1) \in DOMAIN chain.points /\ (i + 1) \in DOMAIN chain.points) =>
            /\ i \in Measurable(chain.points)
            /\ TurnAngle(chain.points, i) <= StraightEps

\* the head of Scenario A was moved from (400, 100) to (500, 100)
ScenarioAHead == HeadPt(chain) = Pt(500 * UNIT, 100 * UNIT)

\* C19: Scenario A. With the head of the 9-point spine moved from (400, 100)
\* to (500, 100), after one update all adjacent distances are approximately
\* 20, and after 50 further ticks with the head held the spine is a straight
\* line within epsilon
ScenarioASettles ==
    /\ (ScenarioAHead /\ budget.updates = 1) => DistancesApproximate
    /\ (ScenarioAHead /\ budget.updates = 1 + ScenarioTicks) => SettledStraight

\* the tolerance on a component of a step target, 0.05
TargetEps == Div(5 * UNIT, 100)

\* the stored step target, along the body and out on the limb's own side,
\* seen from the attachment point of the last update
TargetAlong == AlongDot(TheLeg.stepTargetPos, obs.attachmentPoint, obs.bodyDirection)
TargetOut ==
    SideMultiplier(TheLeg.side)
        * PerpDot(TheLeg.stepTargetPos, obs.attachmentPoint, obs.bodyDirection)

\* the mirror of the along-body offset the foot had before the last update:
\* clamp(-0.8 x offset, -0.4 x reach, +0.4 x reach)
MirroredAlong ==
    Max(-Div(TheLeg.maxLegReach * 4, 10),
        Min(Div(TheLeg.maxLegReach * 4, 10),
            Div(-AlongDot(obs.footPrior, obs.attachmentPoint, obs.bodyDirection) * 8, 10)))

\* the last update started a step of a RESTING limb by the given check
Triggered(check) ==
    /\ obs.op = "update"
    /\ obs.trigger = check
    /\ ~obs.attachmentPoint.nan /\ ~obs.bodyDirection.nan

\* C20 as stated: when the wrong-side check starts the step, the along-body
\* component of the stored target is the clamped 0.8 mirror of the foot's
\* along-body offset
WrongSideStoresMirror ==
    Triggered("wrongSide") => Abs(TargetAlong - MirroredAlong) <= TargetEps

\* C20 amended: when the wrong-side check starts the step, the stored target
\* is 0.5 of the reach out on the limb's own side and 0.2 of the reach
\* forward of the attachment point, whatever the foot's offset was; the
\* clamped 0.8 mirror, 0.5 of the reach out, is what is stored when the
\* reach check alone starts the step
WrongSideStoresSafeTarget ==
    /\ Triggered("wrongSide") =>
          /\ TheLeg.isMoving
          /\ Abs(TargetOut - Div(TheLeg.maxLegReach * 5, 10)) <= TargetEps
          /\ Abs(TargetAlong - Div(TheLeg.maxLegReach * 2, 10)) <= TargetEps
    /\ Triggered("reach") =>
          /\ TheLeg.isMoving
          /\ Abs(TargetOut - Div(TheLeg.maxLegReach * 5, 10)) <= TargetEps
          /\ Abs(TargetAlong - MirroredAlong) <= TargetEps

\* the wrong-side check started a step from a foot whose mirror is not the
\* target that was stored
WrongSideStepFromOffset ==
    /\ Triggered("wrongSide")
    /\ TheLeg.isMoving
    /\ Abs(MirroredAlong - Div(TheLeg.maxLegReach * 2, 10)) > TargetEps

\* the foot was farther than 0.95 of the reach from the attachment point
\* before the last update
FootPriorExceededReach ==
    Distance(obs.attachmentPoint, obs.footPrior) * 100 > 95 * TheLeg.maxLegReach

\* C21: when the wrong-side and the exceeds-reach condition both hold for a
\* RESTING limb in one update, that update starts exactly one step and it is
\* the wrong-side one: the start is the foot before the update, the target
\* is the wrong-side target (0.5 of the reach out, 0.2 of the reach forward)
\* and the progress is that of one animation step, 0.15
WrongSideTakesPrecedence ==
    (Triggered("wrongSide") /\ FootPriorExceededReach) =>
        /\ TheLeg.isMoving
        /\ obs.steps = 1
        /\ TheLeg.stepStartPos = obs.footPrior
        /\ TheLeg.stepTargetPos =
             Offset(obs.attachmentPoint, obs.bodyDirection, TheLeg.side,
                    Div(TheLeg.maxLegReach * 5, 10), Div(TheLeg.maxLegReach * 2, 10))
        /\ TheLeg.stepProgress = Div(15 * UNIT, 100)

\* both conditions held, and the exceeds-reach branch would have stored
\* another target than the wrong-side branch
BothTriggersHeld ==
    /\ Triggered("wrongSide")
    /\ FootPriorExceededReach
    /\ Abs(MirroredAlong - Div(TheLeg.maxLegReach * 2, 10)) > TargetEps
    /\ TheLeg.isMoving

\* C22: an update of a STEPPING limb leaves stepStartPos and stepTargetPos
\* as they were stored when the step began, whatever the attachment point
\* and the body direction are; the limb stays STEPPING while the progress is
\* below 1, and at the update in which the progress reaches 1 the limb
\* becomes RESTING with the foot exactly on stepTargetPos
SteppingKeepsStartAndTarget ==
    [][ (obs'.op = "update" /\ legs[1].isMoving) =>
          /\ legs'[1].stepStartPos = legs[1].stepStartPos
          /\ legs'[1].stepTargetPos = legs[1].stepTargetPos
          /\ legs'[1].stepProgress = Min(UNIT, legs[1].stepProgress + Div(15 * UNIT, 100))
          /\ legs'[1].isMoving <=> legs'[1].stepProgress < UNIT
          /\ ~legs'[1].isMoving => legs'[1].currentFootPos = legs[1].stepTargetPos ]_vars

\* a step ended on its stored target although the attachment point of the
\* ending update is not the one the target was computed from
StepEndedAfterAttachmentMoved ==
    /\ obs.op = "update"
    /\ obs.trigger = "none"
    /\ budget.inits = 0
    /\ ~TheLeg.isMoving
    /\ TheLeg.stepProgress = UNIT
    /\ TheLeg.currentFootPos = TheLeg.stepTargetPos
    /\ Abs(TargetOut - Div(TheLeg.maxLegReach * 5, 10)) > TargetEps

\* C23: an update of a RESTING limb in which no trigger fires changes only
\* the stored body direction and the solver: the foot, stepStartPos,
\* stepTargetPos, stepProgress and isMoving are as before, the stored
\* direction is the one given, and the joints are solved again from the
\* attachment point to the unchanged foot
RestingUpdateChangesOnlySolver ==
    [][ (obs'.op = "update" /\ ~legs[1].isMoving /\ obs'.trigger = "none") =>
          /\ [ legs'[1] EXCEPT !.solver = legs[1].solver,
                               !.lastBodyDirection = legs[1].lastBodyDirection ] = legs[1]
          /\ legs'[1].lastBodyDirection = obs'.bodyDirection
          /\ legs'[1].solver.lengths = legs[1].solver.lengths
          /\ legs'[1].solver.joints[0] = obs'.attachmentPoint
          /\ legs'[1].solver.joints[Cardinality(DOMAIN legs[1].solver.joints) - 1]
               = legs[1].currentFootPos ]_vars

\* a limb that has ended a step was updated at rest without a trigger, with
\* a body direction other than the initial one
RestingAfterStepUpdated ==
    /\ obs.op = "update"
    /\ obs.inside
    /\ obs.trigger = "none"
    /\ ~TheLeg.isMoving
    /\ TheLeg.stepProgress = UNIT
    /\ TheLeg.currentFootPos = obs.footPrior
    /\ TheLeg.lastBodyDirection = Pt(TRIG, 0)
    /\ LastJoint = TheLeg.currentFootPos

\* the last operation was one application of the angle constraint to a point
\* whose turn angle exceeded maxAngle
ConstrainedExcess ==
    /\ obs.op = "constrainAngle"
    /\ TurnAngle(obs.pointsPrior, obs.index) > chain.maxAngle

\* C24: one application of the angle constraint to an interior point whose
\* turn angle exceeds maxAngle leaves the turn angle at that point equal to
\* maxAngle (within 0.02 rad) and the length of the outgoing segment as it was
OneApplicationReachesMaxAngle ==
    ConstrainedExcess =>
        /\ Abs(TurnAngle(chain.points, obs.index) - chain.maxAngle) <= AngleEps
        /\ Abs(AdjacentDistance(chain, obs.index)
               - Hypot(obs.pointsPrior[obs.index + 1].x - obs.pointsPrior[obs.index].x,
                       obs.pointsPrior[obs.index + 1].y - obs.pointsPrior[obs.index].y))
             <= LengthEps

\* the spine index is at a boundary of the chain: the first or the last point
AtChainBoundary(index) == index <= 0 \/ index >= NumPoints(chain) - 1

\* the tolerance on the length of a unit vector, 0.001
UnitEps == Div(TRIG, 1000)

\* C25: the body tangent every limb was given in the last tick is a unit
\* vector, and it is (0, 1) for a limb attached at a boundary of the chain
TangentIsUnitVector ==
    obs.op = "tick" =>
        \A k \in DOMAIN legs :
            /\ ~legs[k].lastBodyDirection.nan
            /\ Abs(Hypot(legs[k].lastBodyDirection.x, legs[k].lastBodyDirection.y) - TRIG)
                 <= UnitEps
            /\ AtChainBoundary(legs[k].attachmentIndex) =>
                 legs[k].lastBodyDirection = Pt(0, TRIG)

\* the scalar of limb k after a tick: the dot product of its attachment-to-foot
\* offset with the body tangent, over the length of the offset, times 0.5;
\* 0 when the foot is on the attachment
SideScalar(k) ==
    LET at == LegInput(chain, legs[k])
        foot == legs[k].currentFootPos
        dist == Distance(at.attachmentPoint, foot)
    IN  IF dist = 0 THEN 0
        ELSE Div(Div((foot.x - at.attachmentPoint.x) * at.bodyDirection.x
                     + (foot.y - at.attachmentPoint.y) * at.bodyDirection.y, dist), 2)

\* the sum of the scalars of the limbs of one side attached at a spine index
\* (there is at most one such limb in the states of the model)
RECURSIVE SumScalars(_)
SumScalars(ks) ==
    IF ks = { } THEN 0
    ELSE LET k == CHOOSE j \in ks : TRUE IN SideScalar(k) + SumScalars(ks \ { k })

\* no coordinate that enters the influences is NaN
InfluenceInputsAreNumbers ==
    /\ \A i \in DOMAIN chain.points : ~chain.points[i].nan
    /\ \A k \in DOMAIN legs : ~legs[k].currentFootPos.nan

\* C26: after a tick the accumulator of every spine index that carries limbs
\* holds (left - right) x 0.3, left and right being the scalars of its limbs,
\* and the accumulator of every other index holds 0: setLegInfluence was
\* called once for the index, with that value
InfluenceIsLeftMinusRight ==
    (obs.op = "tick" /\ InfluenceInputsAreNumbers) =>
        \A index \in DOMAIN chain.points :
            /\ Cardinality(LegsAt(index, "left")) <= 1
            /\ Cardinality(LegsAt(index, "right")) <= 1
            /\ chain.points[index].legInfluence =
                 Div((SumScalars(LegsAt(index, "left"))
                      - SumScalars(LegsAt(index, "right"))) * 3, 10)

\* a tick left an influence other than 0 on a spine index whose limbs both
\* have a scalar other than 0
InfluenceOfBothSides ==
    /\ obs.op = "tick"
    /\ InfluenceInputsAreNumbers
    /\ \E index \in DOMAIN chain.points :
         /\ chain.points[index].legInfluence # 0
         /\ SumScalars(LegsAt(index, "left")) # 0
         /\ SumScalars(LegsAt(index, "right")) # 0

\* the distance of the adjacent points i and i + 1 of a list of spine points
SegmentDistance(pts, i) == Hypot(pts[i + 1].x - pts[i].x, pts[i + 1].y - pts[i].y)

\* applyLegInfluence moved the point i
MovedByInfluence(i) ==
    chain.points[i].x # obs.pointsPrior[i].x \/ chain.points[i].y # obs.pointsPrior[i].y

\* applyLegInfluence moves only successors of body-range points whose
\* accumulator is at least 0.001 in size, and no pinned point
InfluenceMovesOnlyBodySuccessors ==
    \A i \in DOMAIN chain.points :
        MovedByInfluence(i) =>
            /\ ~chain.points[i].pinned
            /\ i - 1 >= BodyStartIndex(chain)
            /\ Abs(obs.pointsPrior[i - 1].legInfluence) >= Div(TRIG, 1000)

\* C27: one applyLegInfluence moves only successors of body-range points
\* with an influence of at least 0.001, never a pinned point, and leaves
\* every adjacent distance of the chain as it was: that of a rotated segment
\* and that of every other segment
InfluenceKeepsDistances ==
    obs.op = "applyLegInfluence" =>
        /\ InfluenceMovesOnlyBodySuccessors
        /\ \A i \in DOMAIN chain.points :
             (i + 1) \in DOMAIN chain.points =>
                 Abs(SegmentDistance(chain.points, i) - SegmentDistance(obs.pointsPrior, i))
                   <= LengthEps

\* the points update leaves when it applies no undulation: the Verlet step,
\* the constraint loop, the leg influence and the reset of the accumulators
WithoutUndulation(c) ==
    ResetInfluence(ApplyLegInfluence(c,
        ConstraintLoop(c, [ i \in DOMAIN c.points |-> Integrate(c, c.points[i]) ], 0)))

\* C28: an update whose head speed is at most 0.5 leaves undulationPhase as
\* it was and adds no displacement to what the constraints and the leg
\* influence give; an update whose head speed exceeds 0.5 adds
\* undulationSpeed x min(headSpeed, 3) to the phase; so the phase never
\* decreases and grows by at most 3 x undulationSpeed in an update, and no
\* update displaces the head
UndulationGatedBySpeed ==
    [][ obs'.op = "update" =>
          /\ HeadSpeed(chain) <= Div(5 * UNIT, 10) =>
               /\ chain'.undulationPhase = chain.undulationPhase
               /\ chain'.points = WithoutUndulation(chain)
          /\ HeadSpeed(chain) > Div(5 * UNIT, 10) =>
               chain'.undulationPhase =
                 chain.undulationPhase
                   + Div(chain.undulationSpeed * Min(HeadSpeed(chain), 3 * UNIT), UNIT)
          /\ chain'.undulationPhase >= chain.undulationPhase
          /\ chain'.undulationPhase - chain.undulationPhase <= 3 * chain.undulationSpeed
          /\ chain'.points[0].x = chain.points[0].x
          /\ chain'.points[0].y = chain.points[0].y ]_vars

\* an update with a head speed of at most 0.5 after an update that applied
\* the undulation: the phase of the first is still there
SlowUpdateAfterUndulation ==
    /\ obs.op = "update"
    /\ budget.updates = 2
    /\ obs.headSpeed <= Div(5 * UNIT, 10)
    /\ chain.undulationPhase > 0
    /\ HeadPt(chain) # Pt(StartX, StartY)

\* C29: the step target stored by either trigger, for a unit body direction,
\* is inside the valid arc of the attachment point of that update: at least
\* 0.3 of the reach out on the limb's own side and at most 0.95 of the reach
\* away
StepTargetInsideValidArc ==
    (Triggered("wrongSide") \/ Triggered("reach")) =>
        /\ ~TheLeg.stepTargetPos.nan
        /\ TargetOut * 10 >= 3 * TheLeg.maxLegReach
        /\ Distance(obs.attachmentPoint, TheLeg.stepTargetPos) * 100
             <= 95 * TheLeg.maxLegReach

\* the reach check stored a target whose along-body offset is at the clamp,
\* 0.4 of the reach: the farthest a target gets from the attachment
FarthestStepTarget ==
    /\ Triggered("reach")
    /\ Abs(TargetAlong) = Div(TheLeg.maxLegReach * 4, 10)
    /\ Hypot(obs.bodyDirection.x, obs.bodyDirection.y) = TRIG

\* C30: in a run of updates with the same attachment point and unit body
\* direction, begun with the limb RESTING, at most one step is started; the
\* limb is RESTING at the seventh update counted from the one that started
\* the step and at every later one, and RESTING throughout if no step was
\* started; and a further update of the run that finds the limb RESTING
\* leaves the limb as it is, so that it rests for as long as the run lasts
HeldLimbStepsAtMostOnce ==
    [][ /\ obs'.run > 0 =>
             /\ obs'.runSteps <= 1
             /\ obs'.runSteps = 0 => ~legs'[1].isMoving
             /\ (obs'.runSteps = 1 /\ obs'.run >= obs'.runTrigger + 6) => ~legs'[1].isMoving
        /\ (obs.run > 0 /\ obs'.run = obs.run + 1 /\ ~legs[1].isMoving) => legs' = legs
      ]_vars

\* a run of eight updates: the first started a step, the seventh ended it
\* and the eighth found the limb RESTING
HeldLimbRestedAfterStep ==
    /\ obs.op = "update"
    /\ obs.run >= 8
    /\ obs.runSteps = 1
    /\ obs.runTrigger = 1
    /\ ~TheLeg.isMoving
    /\ TheLeg.stepProgress = UNIT

====
